---- MODULE Spec2Model ----
(***************************************************************************)
(* A model of the query-time decision pipeline of customer-chatbot:       *)
(* the two rate-limiter backends, the semantic cache, the deduplication   *)
(* gate of the ingestion path and the knowledge-search route.             *)
(*                                                                         *)
(* Time is a discrete clock `now`; one tick stands for one unit of the    *)
(* limiter window (milliseconds for the local backend, seconds for the    *)
(* distributed one).                                                       *)
(***************************************************************************)
EXTENDS Integers, Sequences, FiniteSets, TLC

(***************************************************************************)
(* Bounds of the model.                                                    *)
(***************************************************************************)
\* the clock stops at MaxTime
MaxTime == 4
\* the largest maxRequests a limiter is constructed with
MaxRequests == 2
\* the length of a limiter window, in ticks (windowMs / windowSec)
Window == 2
\* the number of check calls made on a limiter
MaxCalls == 3
\* the number of storeInSemanticCache calls whose steps are interleaved
MaxStores == 4
\* the number of storeInSemanticCache calls when commands can fail
MaxFaultStores == 3

\* the clock stops at MaxCacheTime when the cache is explored
MaxCacheTime == 3
\* ttlSeconds of a cache store, in ticks
Ttl == 2
\* MAX_CACHE_ENTRIES (500 in the source), scaled down
MAX_CACHE_ENTRIES == 2

Keys == {"ip-1", "ip-2"}
Procs == {"p1", "p2"}

Min(a, b) == IF a <= b THEN a ELSE b

VARIABLES
  now,            \* Date.now() / the store's clock
  maxRequests,    \* the limiter's maxRequests (both backends)
  limitMap,       \* MemoryRateLimiter.limitMap: key -> {count, resetTime}
  memLog,         \* history: per key, the check calls made: [t, r]
  redisCounters,  \* the store's counters: prefix:key -> [count, expireAt]
  rpc,            \* per caller of RedisRateLimiter.check: its position
  rkey,           \* per caller: the key it checks
  rcount,         \* per caller: the count its INCR returned
  rtime,          \* per caller: the time of its INCR
  redisLog,       \* history: per key, the returned checks {[t, count, r]}:
                  \* the time and the value of the INCR, and the result
  redisGen,       \* history: per key, how often its counter has expired
  cacheHash,      \* the hash semantic_cache:v1: its entries, in the order
                  \* HGETALL returns them
  cacheExpireAt,  \* the expiry of the hash
  stored,         \* history: the store that has just returned, if any
  documents,      \* the rows of the table documents: [source_hash,
                  \* chunkIndex, by], by being the ingestion that inserted it
  ipc,            \* per ingestion (a call of processText or
                  \* processPDFDocument): its position
  ifile,          \* per ingestion: the uploaded file
  outcome,        \* per ingestion: "success", or the message of the Error
  atStart,        \* history: per ingestion, the rows, the successful and
                  \* the running ingestions when it was called
  icalls,         \* history: per ingestion, the calls it has made
  routeVersion,   \* which of the two sources of the knowledge-search route
                  \* is deployed
  backend,        \* chatRateLimiter: "redis" or "memory"
  qpc,            \* per request of the search route: its position
  qreq,           \* per request: its client key and its body
  cachedResponse, \* per request: what searchSemanticCache returned
  relevantDocs,   \* per request: ragContext.relevantDocs
  contextString,  \* per request: the const contextString of the route, the
                  \* empty sequence before it is built
  events,         \* history: per request, the calls it has made
  qresp,          \* per request: the response of the route
  cpc,            \* per caller of storeInSemanticCache: its position
  clocal,         \* per caller: its entry, the size HLEN returned, the
                  \* keys it is about to delete
  cret,           \* history: per caller, how its last cache call ended
  garbled,        \* the fields of the hash whose value JSON.parse rejects
  uploadVersion,  \* which of the two sources of the upload route is deployed
  ustatus,        \* per upload request: the status of its response, 0
                  \* before it
  simArgs,        \* the arguments <<a, b>> of cosineSimilarity
  simResult,      \* what cosineSimilarity(a, b) and cosineSimilarity(b, a)
                  \* returned
  plainMap,       \* the limitMap of a second MemoryRateLimiter that gets the
                  \* same checks and on which cleanup() is never called
  sweeps          \* history: the calls of cleanup() so far

rlVars == <<now, maxRequests, limitMap, memLog>>
redisVars == <<redisCounters, rpc, rkey, rcount, rtime, redisLog, redisGen>>
cacheVars == <<cacheHash, cacheExpireAt, stored>>
ingestVars == <<documents, ipc, ifile, outcome, atStart, icalls>>
queryVars == <<routeVersion, backend, qpc, qreq, cachedResponse,
               relevantDocs, contextString, events, qresp>>
cacheCallVars == <<cpc, clocal, cret, garbled>>
uploadVars == <<uploadVersion, ustatus>>
cosineVars == <<simArgs, simResult>>
sweepVars == <<plainMap, sweeps>>
nonLimiterVars == <<cacheVars, ingestVars, queryVars, cacheCallVars, uploadVars, cosineVars, sweepVars>>
nonCacheVars == <<maxRequests, limitMap, memLog, redisVars, ingestVars, queryVars,
                  cacheCallVars, uploadVars, cosineVars, sweepVars>>
nonIngestVars == <<now, maxRequests, limitMap, memLog, redisVars, cacheVars,
                   queryVars, cacheCallVars, uploadVars, cosineVars, sweepVars>>
vars == <<now, maxRequests, limitMap, memLog,
          redisCounters, rpc, rkey, rcount, rtime, redisLog, redisGen,
          cacheHash, cacheExpireAt, stored,
          documents, ipc, ifile, outcome, atStart, icalls,
          routeVersion, backend, qpc, qreq, cachedResponse, relevantDocs,
          contextString, events, qresp,
          cpc, clocal, cret, garbled,
          uploadVersion, ustatus,
          simArgs, simResult,
          plainMap, sweeps>>

\* a counter without expiry (INCR creates the key with no TTL)
NoTTL == -1

(***************************************************************************)
(* MemoryRateLimiter (memory.ts)                                           *)
(***************************************************************************)
\* `!record || now > record.resetTime`
MemoryWindowOver(key, t) ==
  \/ key \notin DOMAIN limitMap
  \/ t > limitMap[key].resetTime

MemoryLimitReachedOffByOne(record) == record.count > maxRequests
\* `record.count >= this.maxRequests`
MemoryLimitReached(record) == record.count >= maxRequests

\* the map after limitMap.set(key, value)
MapSet(map, key, value) ==
  [k \in (DOMAIN map) \cup {key} |-> IF k = key THEN value ELSE map[k]]

\* the value check(key) returns at time t
MemoryCheckResult(key, t) ==
  IF MemoryWindowOver(key, t) THEN TRUE
  ELSE ~MemoryLimitReached(limitMap[key])

\* limitMap after check(key) at time t
MemoryCheckMap(key, t) ==
  IF MemoryWindowOver(key, t)
    THEN MapSet(limitMap, key, [count |-> 1, resetTime |-> t + Window])
  ELSE IF MemoryLimitReached(limitMap[key]) THEN limitMap
  ELSE MapSet(limitMap, key, [count |-> limitMap[key].count + 1,
                              resetTime |-> limitMap[key].resetTime])

MemoryRateLimiterCheck(key) ==
  /\ Len(memLog["ip-1"]) + Len(memLog["ip-2"]) < MaxCalls
  /\ limitMap' = MemoryCheckMap(key, now)
  /\ memLog' = [memLog EXCEPT
                  ![key] = Append(@, [t |-> now, r |-> MemoryCheckResult(key, now)])]
  /\ UNCHANGED <<now, maxRequests>>
  /\ UNCHANGED redisVars
  /\ UNCHANGED nonLimiterVars

(***************************************************************************)
(* The clock.  The store removes a key whose expiry has been reached: a    *)
(* limiter counter, or the whole hash of the semantic cache.               *)
(***************************************************************************)
RedisLive(t) ==
  {k \in DOMAIN redisCounters :
     redisCounters[k].expireAt = NoTTL \/ t < redisCounters[k].expireAt}

CacheLive(t) == cacheExpireAt = NoTTL \/ t < cacheExpireAt

Tick ==
  /\ now < MaxTime
  /\ now' = now + 1
  /\ redisCounters' = [k \in RedisLive(now + 1) |-> redisCounters[k]]
  /\ redisGen' = [k \in Keys |->
                   IF k \in DOMAIN redisCounters /\ k \notin RedisLive(now + 1)
                     THEN redisGen[k] + 1 ELSE redisGen[k]]
  /\ cacheHash' = IF CacheLive(now + 1) THEN cacheHash ELSE << >>
  /\ cacheExpireAt' = IF CacheLive(now + 1) THEN cacheExpireAt ELSE NoTTL
  /\ stored' = << >>
  /\ UNCHANGED <<maxRequests, limitMap, memLog, rpc, rkey, rcount, rtime, redisLog>>
  /\ UNCHANGED ingestVars
  /\ UNCHANGED queryVars
  /\ UNCHANGED uploadVars
  /\ UNCHANGED cosineVars
  /\ UNCHANGED sweepVars
  /\ UNCHANGED <<cpc, clocal, cret>>
  /\ garbled' = IF CacheLive(now + 1) THEN garbled ELSE {}

InitLimiter(limits) ==
  /\ maxRequests \in limits
  /\ limitMap = << >>
  /\ memLog = [k \in Keys |-> << >>]
  /\ redisCounters = << >>
  /\ rpc = [p \in Procs |-> "idle"]
  /\ rkey = [p \in Procs |-> "ip-1"]
  /\ rcount = [p \in Procs |-> 0]
  /\ rtime = [p \in Procs |-> 0]
  /\ redisLog = [k \in Keys |-> {}]
  /\ redisGen = [k \in Keys |-> 0]

InitCache ==
  /\ cacheHash = << >>
  /\ cacheExpireAt = NoTTL
  /\ stored = << >>

CacheCallers == {"c1", "c2", "c3"}

NoEntry == [id |-> 0, embedding |-> <<0, 0>>, response |-> "", timestamp |-> 0]
NoLocals == [entry |-> NoEntry, size |-> 0, keys |-> {}]
NoReturn == [op |-> "none", threw |-> FALSE, failed |-> FALSE, value |-> "",
             size |-> 0, calls |-> 0]

InitCacheCalls ==
  /\ cpc = [c \in CacheCallers |-> "idle"]
  /\ clocal = [c \in CacheCallers |-> NoLocals]
  /\ cret = [c \in CacheCallers |-> NoReturn]
  /\ garbled = {}

Ingestions == {"i1", "i2", "i3"}

\* the uploaded files: plain text, a PDF with the text of the first file,
\* a text of two chunks, a blank text
TextFile == [type |-> "text/plain", bytes |-> "Agents use tools"]
PdfFile == [type |-> "application/pdf", bytes |-> "%PDF Agents use tools"]
LongFile == [type |-> "text/plain", bytes |-> "Agents plan. Agents act."]
BlankFile == [type |-> "text/plain", bytes |-> "  "]
Files == {TextFile, PdfFile, LongFile, BlankFile}

Uploads == {"u1", "u2", "u3"}

\* no call of cosineSimilarity has returned
NoSimilarity == [called |-> FALSE, ab |-> [nan |-> FALSE, dot |-> 0, nn |-> 0, low |-> FALSE],
                 ba |-> [nan |-> FALSE, dot |-> 0, nn |-> 0, low |-> FALSE]]

InitSweep ==
  /\ plainMap = << >>
  /\ sweeps = 0

InitCosine(vectors) ==
  /\ simArgs \in vectors \X vectors
  /\ simResult = NoSimilarity

InitUpload(versions) ==
  /\ uploadVersion \in versions
  /\ ustatus = [u \in Uploads |-> 0]

InitIngest ==
  /\ documents = {}
  /\ ipc = [i \in Ingestions |-> "idle"]
  /\ ifile = [i \in Ingestions |-> BlankFile]
  /\ outcome = [i \in Ingestions |-> "none"]
  /\ atStart = [i \in Ingestions |-> [rows |-> {}, succeeded |-> {}, running |-> {}]]
  /\ icalls = [i \in Ingestions |-> << >>]

Requests == {"q1", "q2"}

\* the bodies of a POST: two queries, an empty query, a body that is not JSON
Bodies ==
  {[json |-> TRUE, query |-> "What is RAG?"],
   [json |-> TRUE, query |-> "Explain RAG"],
   [json |-> TRUE, query |-> ""],
   [json |-> FALSE, query |-> ""]}

\* the values a cached response can have at run time
NullValue == [kind |-> "null", value |-> ""]
ArrayValue(a) == [kind |-> "array", value |-> a]

\* a response without the field contextString, a context not built yet
NoContextString == << >>

NoResponse == [status |-> 0, cached |-> FALSE, response |-> NullValue,
               contextString |-> NoContextString]

InitQuery(versions, backends) ==
  /\ routeVersion \in versions
  /\ backend \in backends
  /\ qpc = [q \in Requests |-> "idle"]
  /\ qreq = [q \in Requests |-> [ip |-> "ip-1", body |-> [json |-> FALSE, query |-> ""]]]
  /\ cachedResponse = [q \in Requests |-> NullValue]
  /\ relevantDocs = [q \in Requests |-> << >>]
  /\ contextString = [q \in Requests |-> NoContextString]
  /\ events = [q \in Requests |-> << >>]
  /\ qresp = [q \in Requests |-> NoResponse]

InitRL ==
  /\ now = 0
  /\ InitLimiter(0..MaxRequests)
  /\ InitCache
  /\ InitCacheCalls
  /\ InitIngest
  /\ InitUpload({"part_001"})
  /\ InitCosine({<<1, 0>>})
  /\ InitSweep
  /\ InitQuery({"part_002"}, {"memory"})

NextMem ==
  \/ \E key \in Keys : MemoryRateLimiterCheck(key)
  \/ Tick

SpecMem == InitRL /\ [][NextMem]_vars

(***************************************************************************)
(* RedisRateLimiter (redis.ts).  check(key) is INCR, then EXPIRE when the  *)
(* count is 1, then the comparison; each await is a step of its own, so    *)
(* the steps of concurrent callers interleave.                             *)
(***************************************************************************)
\* the calls of check(key) in flight
InFlight(key) == {p \in Procs : rpc[p] # "idle" /\ rkey[p] = key}

\* the calls of check started so far, on any key
RedisCalls ==
  Cardinality(redisLog["ip-1"]) + Cardinality(redisLog["ip-2"])
    + Cardinality({p \in Procs : rpc[p] # "idle"})

IncrValueAnyKey(key) ==
  IF DOMAIN redisCounters # {}
    THEN redisCounters[CHOOSE k \in DOMAIN redisCounters : TRUE].count + 1
    ELSE 1
\* the value INCR returns for key
IncrValue(key) ==
  IF key \in DOMAIN redisCounters THEN redisCounters[key].count + 1 ELSE 1

\* the store after INCR key: a missing counter is created without expiry
IncrStore(key) ==
  MapSet(redisCounters, key,
         [count |-> IncrValue(key),
          expireAt |-> IF key \in DOMAIN redisCounters
                         THEN redisCounters[key].expireAt ELSE NoTTL])

ExpireStoreEarly(store, key, t) ==
  IF key \in DOMAIN store
    THEN MapSet(store, key, [count |-> store[key].count, expireAt |-> t + Window - 1])
    ELSE store
\* store after EXPIRE key seconds at time t (no effect on a missing key)
ExpireStore(store, key, t) ==
  IF key \in DOMAIN store
    THEN MapSet(store, key, [count |-> store[key].count, expireAt |-> t + Window])
    ELSE store

ExpireNeededAlways(count) == count >= 1
\* `if (count === 1)`: only the call that created the counter sets its expiry
ExpireNeeded(count) == count = 1

RedisAllowedStrict(count) == count < maxRequests
\* `return count <= this.maxRequests`
RedisAllowed(count) == count <= maxRequests

\* `const count = await redis.incr(redisKey)`
RedisIncr(p, key) ==
  /\ rpc[p] = "idle"
  /\ RedisCalls < MaxCalls
  /\ redisCounters' = IncrStore(key)
  /\ rcount' = [rcount EXCEPT ![p] = IncrValue(key)]
  /\ rkey' = [rkey EXCEPT ![p] = key]
  /\ rtime' = [rtime EXCEPT ![p] = now]
  /\ rpc' = [rpc EXCEPT ![p] = IF ExpireNeeded(IncrValue(key)) THEN "expire" ELSE "return"]
  /\ UNCHANGED <<redisLog, redisGen>>
  /\ UNCHANGED rlVars
  /\ UNCHANGED nonLimiterVars

\* `if (count === 1) await redis.expire(redisKey, this.windowSec)`
RedisExpire(p) ==
  /\ rpc[p] = "expire"
  /\ redisCounters' = ExpireStore(redisCounters, rkey[p], now)
  /\ rpc' = [rpc EXCEPT ![p] = "return"]
  /\ UNCHANGED <<rkey, rcount, rtime, redisLog, redisGen>>
  /\ UNCHANGED rlVars
  /\ UNCHANGED nonLimiterVars

\* `return count <= this.maxRequests`
RedisReturn(p) ==
  /\ rpc[p] = "return"
  /\ redisLog' = [redisLog EXCEPT
                    ![rkey[p]] = @ \cup {[t |-> rtime[p], count |-> rcount[p],
                                          r |-> RedisAllowed(rcount[p])]}]
  /\ rpc' = [rpc EXCEPT ![p] = "idle"]
  /\ rkey' = [rkey EXCEPT ![p] = "ip-1"]
  /\ rcount' = [rcount EXCEPT ![p] = 0]
  /\ rtime' = [rtime EXCEPT ![p] = 0]
  /\ UNCHANGED <<redisCounters, redisGen>>
  /\ UNCHANGED rlVars
  /\ UNCHANGED nonLimiterVars

NextRedis ==
  \/ \E p \in Procs, key \in Keys : RedisIncr(p, key)
  \/ \E p \in Procs : RedisExpire(p)
  \/ \E p \in Procs : RedisReturn(p)
  \/ Tick

SpecRedis == InitRL /\ [][NextRedis]_vars

(***************************************************************************)
(* C2.  Distributed backend: a check returns true iff the value its INCR   *)
(* returned is <= maxRequests; and while the counter of a key has never    *)
(* expired (all calls fall in the key's first window), once the N calls    *)
(* made on the key have all returned, exactly min(N, maxRequests) of them  *)
(* returned true, whatever the interleaving of the callers' steps.         *)
(***************************************************************************)
Allowed(log) == {e \in log : e.r}

C2_RedisAdmitsMin ==
  \A key \in Keys :
    /\ \A e \in redisLog[key] : e.r = (e.count <= maxRequests)
    /\ (redisGen[key] = 0 /\ InFlight(key) = {}) =>
         Cardinality(Allowed(redisLog[key]))
           = Min(Cardinality(redisLog[key]), maxRequests)

\* more calls than maxRequests have returned on one key inside its first
\* window, the last INCR having run before the first caller's EXPIRE
C2_Witness ==
  /\ redisGen["ip-1"] = 0
  /\ InFlight("ip-1") = {}
  /\ Cardinality(redisLog["ip-1"]) = maxRequests + 1
  /\ maxRequests >= 1

(***************************************************************************)
(* C1.  Local backend, maxRequests = M >= 1.  The first call logged for a  *)
(* key finds no record and opens the window [t0, t0 + Window].  Of the     *)
(* calls made inside that window, call number i returns true exactly when  *)
(* i <= M (so M calls return true and call M+1 returns false); the first   *)
(* call made after the window has elapsed returns true and leaves the      *)
(* record {count: 1, resetTime: t + Window}.                               *)
(***************************************************************************)
InFirstWindow(log, i) == log[i].t <= log[1].t + Window

FirstAfterWindow(log, j) ==
  /\ ~InFirstWindow(log, j)
  /\ \A i \in 1..(j - 1) : InFirstWindow(log, i)

RedisCheckStore(key, t) ==
  IF ExpireNeeded(IncrValue(key)) THEN ExpireStore(IncrStore(key), key, t)
  ELSE IncrStore(key)

CheckBoth(key) ==
  /\ Len(memLog["ip-1"]) + Len(memLog["ip-2"]) < MaxCalls
  /\ limitMap' = MemoryCheckMap(key, now)
  /\ memLog' = [memLog EXCEPT
                  ![key] = Append(@, [t |-> now, r |-> MemoryCheckResult(key, now)])]
  /\ redisCounters' = RedisCheckStore(key, now)
  /\ redisLog' = [redisLog EXCEPT
                    ![key] = @ \cup {[t |-> now, count |-> IncrValue(key),
                                      r |-> RedisAllowed(IncrValue(key))]}]
  /\ UNCHANGED <<now, maxRequests, rpc, rkey, rcount, rtime, redisGen>>
  /\ UNCHANGED nonLimiterVars

NextEquiv ==
  \/ \E key \in Keys : CheckBoth(key)
  \/ Tick

SpecEquiv == InitRL /\ [][NextEquiv]_vars

(***************************************************************************)
(* C3.  For every maxRequests (0 included) and every sequence of checks by *)
(* one caller on a fresh key that fall strictly within one window, call    *)
(* number i gets the same answer from the local backend as from the        *)
(* distributed backend (whose INCR returns i for that call).               *)
(***************************************************************************)
StrictlyInFirstWindow(log, i) == log[i].t < log[1].t + Window

SameAnswer(key, i) ==
  \E e \in redisLog[key] :
    /\ e.t = memLog[key][i].t
    /\ e.count = i
    /\ e.r = memLog[key][i].r

C3_BackendsAgree ==
  \A key \in Keys :
    \A i \in 1..Len(memLog[key]) :
      StrictlyInFirstWindow(memLog[key], i) => SameAnswer(key, i)

\* the backends agree when the limit is positive
C3_BackendsAgreePositiveLimit ==
  maxRequests >= 1 => C3_BackendsAgree

(***************************************************************************)
(* The semantic cache (semantic-cache.ts).                                 *)
(*                                                                         *)
(* Embeddings are integer vectors.  An entry is {id, embedding, response,  *)
(* timestamp}; its query text is written and never read, and is left out.  *)
(* JSON.stringify / JSON.parse of an entry give back the same finite       *)
(* numbers and the same string.                                            *)
(***************************************************************************)
Embeddings == {<<0, 0>>, <<1, 0>>, <<1, 1>>, <<3, 4>>}
Responses == {"sunny", "rainy"}
\* similarityThreshold as a fraction <<numerator, denominator>>:
\* 0.7 (search route), 0.88 (the default), 1.0
Thresholds == {<<7, 10>>, <<22, 25>>, <<1, 1>>}
\* `null`
Absent == "null"

Dot(a, b) == a[1] * b[1] + a[2] * b[2]
Norm2(a) == Dot(a, a)

\* Math.sqrt(normA) * Math.sqrt(normB) is above the exact square root of
\* normA * normB: Math.sqrt(2) * Math.sqrt(2) = 2.0000000000000004, and the
\* same for sqrt(2) * sqrt(8), sqrt(5) * sqrt(5) and sqrt(8) * sqrt(8).  The
\* norms 0, 1, 4 and 25 have exact roots, and the other products of the
\* norms 0, 1, 2, 4, 5, 8, 25 are irrational, so never equal to a threshold.
SqrtProductRoundsUp(normA, normB) ==
  <<normA, normB>> \in {<<2, 2>>, <<2, 8>>, <<8, 2>>, <<5, 5>>, <<8, 8>>}

\* the double cosineSimilarity(a, b) returns: NaN (0 / 0) when a norm is 0,
\* else dot / sqrt(nn), one step closer to 0 when the denominator rounded up
CosineSimilarity(a, b) ==
  [nan |-> Norm2(a) * Norm2(b) = 0,
   dot |-> Dot(a, b),
   nn |-> Norm2(a) * Norm2(b),
   low |-> SqrtProductRoundsUp(Norm2(a), Norm2(b))]

AtLeastStrict(sim, t) ==
  /\ ~sim.nan
  /\ sim.dot > 0
  /\ sim.dot * sim.dot * t[2] * t[2] > t[1] * t[1] * sim.nn
\* `similarity >= similarityThreshold` for a threshold t > 0; NaN >= t is false
AtLeast(sim, t) ==
  /\ ~sim.nan
  /\ sim.dot > 0
  /\ \/ sim.dot * sim.dot * t[2] * t[2] > t[1] * t[1] * sim.nn
     \/ /\ sim.dot * sim.dot * t[2] * t[2] = t[1] * t[1] * sim.nn
        /\ ~sim.low

\* the entries of hash that reach threshold t for queryEmbedding
Hits(hash, queryEmbedding, t) ==
  {i \in 1..Len(hash) :
     AtLeast(CosineSimilarity(queryEmbedding, hash[i].embedding), t)}

SetMax(S) == CHOOSE x \in S : \A y \in S : x >= y
SetMin(S) == CHOOSE x \in S : \A y \in S : x <= y

\* searchSemanticCache: the response of the first entry, in the order of
\* Object.values(entries), whose similarity reaches the threshold
SearchSemanticCache(hash, queryEmbedding, t) ==
  IF Hits(hash, queryEmbedding, t) = {} THEN Absent
  ELSE hash[SetMin(Hits(hash, queryEmbedding, t))].response

\* crypto.randomUUID(): an id no field of the hash has
FreshId(hash) ==
  SetMin({i \in 1..(Len(hash) + 1) : \A j \in 1..Len(hash) : hash[j].id # i})

\* HSET of a new field; the store decides where HGETALL will return it
HSet(hash, pos, entry) ==
  [i \in 1..(Len(hash) + 1) |->
     IF i < pos THEN hash[i] ELSE IF i = pos THEN entry ELSE hash[i - 1]]

RankNewestFirst(hash, i) ==
  Cardinality({j \in 1..Len(hash) : hash[j].timestamp > hash[i].timestamp})
    + Cardinality({j \in 1..(i - 1) : hash[j].timestamp = hash[i].timestamp})
\* the place of entry i after the stable `.sort((a, b) => a.timestamp - b.timestamp)`
Rank(hash, i) ==
  Cardinality({j \in 1..Len(hash) : hash[j].timestamp < hash[i].timestamp})
    + Cardinality({j \in 1..(i - 1) : hash[j].timestamp = hash[i].timestamp})

OldestKeysShort(hash, count) ==
  {hash[i].id : i \in {j \in 1..Len(hash) : Rank(hash, j) < count - 1}}
\* `.slice(0, count)` of the sorted entries: the keys evictOldestEntries deletes
OldestKeys(hash, count) ==
  {hash[i].id : i \in {j \in 1..Len(hash) : Rank(hash, j) < count}}

\* HDEL
HDel(hash, keys) == SelectSeq(hash, LAMBDA entry : entry.id \notin keys)

EvictOldestEntries(hash, count) == HDel(hash, OldestKeys(hash, count))

SizeOverLimitLate(size) == size > MAX_CACHE_ENTRIES + 1
\* `if (size > MAX_CACHE_ENTRIES)`
SizeOverLimit(size) == size > MAX_CACHE_ENTRIES

\* the hash after a storeInSemanticCache that no other call interleaves with
StoreHash(hash, pos, entry) ==
  IF SizeOverLimit(Len(HSet(hash, pos, entry)))
    THEN EvictOldestEntries(HSet(hash, pos, entry),
                            Len(HSet(hash, pos, entry)) - MAX_CACHE_ENTRIES)
    ELSE HSet(hash, pos, entry)

NewEntry(embedding, response) ==
  [id |-> FreshId(cacheHash), embedding |-> embedding, response |-> response,
   timestamp |-> now]

StoreInSemanticCache(embedding, response) ==
  /\ \E pos \in 1..(Len(cacheHash) + 1) :
       cacheHash' = StoreHash(cacheHash, pos, NewEntry(embedding, response))
  /\ cacheExpireAt' = now + Ttl
  /\ stored' = <<[embedding |-> embedding, response |-> response,
                  id |-> FreshId(cacheHash),
                  sizeBefore |-> Len(cacheHash),
                  hadOlder |-> \E i \in 1..Len(cacheHash) :
                                 cacheHash[i].timestamp < now,
                  evicted |-> Len(cacheHash) + 1 - Len(cacheHash')]>>
  /\ UNCHANGED now
  /\ UNCHANGED nonCacheVars

\* the clock of the cache runs
CacheTick ==
  /\ now < MaxCacheTime
  /\ Tick

InitCacheSpec ==
  /\ now = 0
  /\ InitLimiter({1})
  /\ InitCache
  /\ InitCacheCalls
  /\ InitIngest
  /\ InitUpload({"part_001"})
  /\ InitCosine({<<1, 0>>})
  /\ InitSweep
  /\ InitQuery({"part_002"}, {"memory"})

NextCache ==
  \/ \E e \in Embeddings, r \in Responses : StoreInSemanticCache(e, r)
  \/ CacheTick

SpecCache == InitCacheSpec /\ [][NextCache]_vars

(***************************************************************************)
(* C5.  After any sequence of storeInSemanticCache calls that do not       *)
(* overlap and run to completion, the hash holds at most MAX_CACHE_ENTRIES *)
(* entries.                                                                *)
(***************************************************************************)
C5_CacheSizeBound == Len(cacheHash) <= MAX_CACHE_ENTRIES

\* a store has just evicted an entry of a full cache
C5_Witness ==
  /\ stored # << >>
  /\ stored[1].evicted = 1
  /\ Len(cacheHash) = MAX_CACHE_ENTRIES

SelfSimilarityReaches(e, t) ==
  /\ Norm2(e) > 0
  /\ t[1] < t[2] \/ ~SqrtProductRoundsUp(Norm2(e), Norm2(e))

\* the cache had room for the new entry, or held an older entry to evict
RoomOrOlder ==
  \/ stored[1].sizeBefore < MAX_CACHE_ENTRIES
  \/ stored[1].hadOlder

ExtractText(file) ==
  IF file.type = "application/pdf" THEN
    (IF file.bytes = "%PDF Agents use tools" THEN "Agents use tools" ELSE "  ")
  ELSE file.bytes

\* `!text || text.trim().length === 0`
IsBlank(text) == text = "  "

\* chunkText: the chunks of the splitter, at least one for a text that is
\* not blank
ChunkText(text) ==
  IF text = "Agents plan. Agents act." THEN <<"Agents plan.", "Agents act.">>
  ELSE <<text>>

HashOfFileBytes(file) == <<"sha256", file.bytes>>
\* crypto.createHash("sha256").update(text).digest("hex") of the text of the
\* file: equal digests for equal texts only
SourceHash(file) == <<"sha256", ExtractText(file)>>

RowHashOfChunk(file, c) == <<"sha256", ChunkText(ExtractText(file))[c + 1]>>
\* the source_hash processText puts in the metadata of chunk c, which
\* insertDocument writes to the column: the hash of the whole text
RowHash(file, c) == SourceHash(file)

\* the rows whose source_hash column is hash
RowsOf(rows, hash) == {row \in rows : row.source_hash = hash}

\* checkDocumentExists, the select having succeeded
CheckDocumentExists(hash) == RowsOf(documents, hash) # {}

\* the chunk indexes ingestion i has not inserted yet
Pending(i) ==
  {c \in 0..(Len(ChunkText(ExtractText(ifile[i]))) - 1) :
     [source_hash |-> RowHash(ifile[i], c), chunkIndex |-> c, by |-> i]
       \notin documents}

Succeeded == {i \in Ingestions : outcome[i] = "success"}
Running == {i \in Ingestions : ipc[i] \notin {"idle", "done"}}

\* processText / processPDFDocument is called; a blank text is refused
ProcessText(i, file) ==
  /\ ipc[i] = "idle"
  /\ ifile' = [ifile EXCEPT ![i] = file]
  /\ atStart' = [atStart EXCEPT ![i] = [rows |-> documents, succeeded |-> Succeeded,
                                       running |-> Running]]
  /\ IF IsBlank(ExtractText(file))
       THEN /\ ipc' = [ipc EXCEPT ![i] = "done"]
            /\ outcome' = [outcome EXCEPT ![i] = "No text to process"]
       ELSE /\ ipc' = [ipc EXCEPT ![i] = "check"]
            /\ UNCHANGED outcome
  /\ UNCHANGED <<documents, icalls>>
  /\ UNCHANGED nonIngestVars

DuplicateIgnored(exists) == FALSE
\* `if (exists) { throw new Error("DUPLICATE_DOCUMENT") }`
DuplicateThrown(exists) == exists

\* `const exists = await checkDocumentExists(source_hash)`, the throw of a
\* duplicate, and `const chunks = await chunkText(text)`
DedupGate(i) ==
  /\ ipc[i] = "check"
  /\ IF DuplicateThrown(CheckDocumentExists(SourceHash(ifile[i])))
       THEN /\ ipc' = [ipc EXCEPT ![i] = "done"]
            /\ outcome' = [outcome EXCEPT ![i] = "DUPLICATE_DOCUMENT"]
            /\ icalls' = [icalls EXCEPT ![i] = Append(@, "exists:true")]
       ELSE /\ ipc' = [ipc EXCEPT ![i] = "embed"]
            /\ UNCHANGED outcome
            /\ icalls' = [icalls EXCEPT ![i] =
                 @ \o <<IF CheckDocumentExists(SourceHash(ifile[i]))
                          THEN "exists:true" ELSE "exists:false", "chunk">>]
  /\ UNCHANGED <<documents, ifile, atStart>>
  /\ UNCHANGED nonIngestVars

\* `const embeddings = await generateBatchEmbeddings(chunks)`
GenerateBatchEmbeddings(i) ==
  /\ ipc[i] = "embed"
  /\ ipc' = [ipc EXCEPT ![i] = "insert"]
  /\ icalls' = [icalls EXCEPT ![i] = Append(@, "embed")]
  /\ UNCHANGED <<documents, ifile, outcome, atStart>>
  /\ UNCHANGED nonIngestVars

\* one insertDocument of the Promise.all, in any order
InsertDocument(i) ==
  /\ ipc[i] = "insert"
  /\ \E c \in Pending(i) :
       documents' = documents \cup
         {[source_hash |-> RowHash(ifile[i], c), chunkIndex |-> c, by |-> i]}
  /\ icalls' = [icalls EXCEPT ![i] = Append(@, "insert")]
  /\ UNCHANGED <<ipc, ifile, outcome, atStart>>
  /\ UNCHANGED nonIngestVars

\* the Promise.all has resolved: `return { success: true, ... }`
IngestReturn(i) ==
  /\ ipc[i] = "insert"
  /\ Pending(i) = {}
  /\ ipc' = [ipc EXCEPT ![i] = "done"]
  /\ outcome' = [outcome EXCEPT ![i] = "success"]
  /\ UNCHANGED <<documents, ifile, atStart, icalls>>
  /\ UNCHANGED nonIngestVars

\* an ingestion called while no other one is running
ProcessTextAlone(i, file) ==
  /\ Running = {}
  /\ ProcessText(i, file)

InitIngestSpec ==
  /\ now = 0
  /\ InitLimiter({1})
  /\ InitCache
  /\ InitCacheCalls
  /\ InitIngest
  /\ InitUpload({"part_001"})
  /\ InitCosine({<<1, 0>>})
  /\ InitSweep
  /\ InitQuery({"part_002"}, {"memory"})

IngestSteps ==
  \/ \E i \in Ingestions : DedupGate(i)
  \/ \E i \in Ingestions : GenerateBatchEmbeddings(i)
  \/ \E i \in Ingestions : InsertDocument(i)
  \/ \E i \in Ingestions : IngestReturn(i)

NextIngestSeq ==
  \/ \E i \in Ingestions, file \in Files : ProcessTextAlone(i, file)
  \/ IngestSteps

NextIngest ==
  \/ \E i \in Ingestions, file \in Files : ProcessText(i, file)
  \/ IngestSteps

\* ingestions one after the other
SpecIngestSeq == InitIngestSpec /\ [][NextIngestSeq]_vars
\* ingestions that run concurrently (two requests, or the files of one
\* multi-file upload)
SpecIngest == InitIngestSpec /\ [][NextIngest]_vars

(***************************************************************************)
(* C6.  Sequential dedup: an ingestion called after content with the same  *)
(* hash H was ingested successfully ends with DUPLICATE_DOCUMENT and       *)
(* inserts nothing: the rows with source_hash H are those it found, all    *)
(* written by one ingestion, and exactly one row when the content is a     *)
(* single chunk.                                                           *)
(***************************************************************************)
AlreadyIngested(i) ==
  \E j \in atStart[i].succeeded : ExtractText(ifile[j]) = ExtractText(ifile[i])

\* the rows that hold chunks of the text of ingestion i
RowsOfText(rows, i) ==
  {row \in rows : ExtractText(ifile[row.by]) = ExtractText(ifile[i])}

C6_SecondIngestionRejected ==
  \A i \in Ingestions :
    (ipc[i] = "done" /\ AlreadyIngested(i)) =>
      /\ outcome[i] = "DUPLICATE_DOCUMENT"
      /\ \A row \in documents : row.by # i
      /\ RowsOfText(documents, i) = RowsOfText(atStart[i].rows, i)
      /\ \A r1, r2 \in RowsOfText(documents, i) :
           r1.by = r2.by /\ r1.source_hash = r2.source_hash
      /\ Len(ChunkText(ExtractText(ifile[i]))) = 1 =>
           Cardinality(RowsOfText(documents, i)) = 1

\* the text file was ingested, then the PDF with the same text was refused
C6_Witness ==
  /\ ifile["i1"] = TextFile
  /\ outcome["i1"] = "success"
  /\ ifile["i2"] = PdfFile
  /\ "i1" \in atStart["i2"].succeeded
  /\ outcome["i2"] = "DUPLICATE_DOCUMENT"

(***************************************************************************)
(* C7.  Dedup under interleaving: of the ingestions of one content (one    *)
(* source hash) at most one succeeds, and the table never holds rows of    *)
(* one source hash that were inserted by two different ingestions.         *)
(***************************************************************************)
Concurrent(i, j) ==
  i # j /\ (i \in atStart[j].running \/ j \in atStart[i].running)

C7_ConcurrentDedup ==
  \A i, j \in Ingestions :
    (Concurrent(i, j) /\ SourceHash(ifile[i]) = SourceHash(ifile[j])) =>
      /\ ~(outcome[i] = "success" /\ outcome[j] = "success")
      /\ ~\E r1, r2 \in documents :
            /\ r1.source_hash = SourceHash(ifile[i])
            /\ r2.source_hash = SourceHash(ifile[i])
            /\ r1.by = i
            /\ r2.by = j

(***************************************************************************)
(* The knowledge-search route (POST).  Two sources of the route exist:     *)
(* part_002 checks chatRateLimiter first and stores the answer of a miss   *)
(* in the cache; search/route.ts does neither.  Every await is a step.     *)
(***************************************************************************)
\* generateEmbedding(query)
Embed(query) == IF query = "What is RAG?" THEN <<1, 0>> ELSE <<1, 1>>

\* the threshold the route passes to searchSemanticCache: 0.7 or 0.88
LookupThreshold == IF routeVersion = "part_002" THEN <<7, 10>> ELSE <<22, 25>>

\* a result of searchSimilarDocuments; similarity in ten-thousandths
Doc(content, similarity) == [content |-> content, similarity |-> similarity]

\* the results searchSimilarDocuments can return
SearchResults == {<< >>, <<Doc("Agents use tools", 8000)>>}

\* a string is the sequence of its pieces; a number is written digit by digit
DigitChars == <<"0", "1", "2", "3", "4", "5", "6", "7", "8", "9">>

RECURSIVE Decimal(_)
\* the decimal digits of a natural number, as a template literal writes it
Decimal(n) ==
  IF n < 10 THEN <<DigitChars[n + 1]>>
  ELSE Decimal(n \div 10) \o <<DigitChars[(n % 10) + 1]>>

\* `(doc.similarity * 100).toFixed(1)`: one digit after the point, rounded
ToFixed1(similarity) ==
  LET tenths == (similarity + 5) \div 10
  IN  Decimal(tenths \div 10) \o <<".", DigitChars[(tenths % 10) + 1]>>

DocumentNumberFromZero(index) == index
\* `index + 1`
DocumentNumber(index) == index + 1

\* the template literal of the map callback; index counts from 0
Block(doc, index) ==
  <<"[Document ">> \o Decimal(DocumentNumber(index)) \o <<"] (Relevance: ">>
    \o ToFixed1(doc.similarity) \o <<"%)\n", doc.content>>

RECURSIVE JoinBlocks(_, _)
\* `.map(...).join("\n\n---\n\n")` of the first n documents
JoinBlocks(docs, n) ==
  IF n = 1 THEN Block(docs[1], 0)
  ELSE JoinBlocks(docs, n - 1) \o <<"\n\n---\n\n">> \o Block(docs[n], n - 1)

\* buildContextString
BuildContextString(docs) ==
  IF Len(docs) = 0
    THEN <<"No relevant information found in the knowledge base.">>
    ELSE JoinBlocks(docs, Len(docs))

\* what searchSemanticCache resolves to
LookupValue(queryEmbedding) ==
  IF Hits(cacheHash, queryEmbedding, LookupThreshold) = {} THEN NullValue
  ELSE SearchSemanticCache(cacheHash, queryEmbedding, LookupThreshold)

CachedResponseNever(value) == FALSE
\* `if (cachedResponse)`: null and the empty string are falsy
CachedResponseTruthy(value) ==
  value.kind = "array" \/ (value.kind = "string" /\ value.value # "")

\* `!query || typeof query !== "string"`
QueryMissing(body) == body.query = ""

Emit(q, event) == events' = [events EXCEPT ![q] = Append(@, event)]

Respond(q, status, cached, response) ==
  /\ qpc' = [qpc EXCEPT ![q] = "done"]
  /\ qresp' = [qresp EXCEPT ![q] = [status |-> status, cached |-> cached,
                                    response |-> response,
                                    contextString |-> NoContextString]]

\* the response of a miss: `cached: false, documents, contextString`
RespondMiss(q, text) ==
  /\ qpc' = [qpc EXCEPT ![q] = "done"]
  /\ qresp' = [qresp EXCEPT ![q] = [status |-> 200, cached |-> FALSE,
                                    response |-> NullValue,
                                    contextString |-> text]]

\* a request arrives
Receive(q, ip, body) ==
  /\ qpc[q] = "idle"
  /\ qreq' = [qreq EXCEPT ![q] = [ip |-> ip, body |-> body]]
  /\ qpc' = [qpc EXCEPT ![q] = IF routeVersion = "part_002" THEN "gate" ELSE "parse"]
  /\ UNCHANGED <<routeVersion, backend, cachedResponse, relevantDocs, contextString, events, qresp>>
  /\ UNCHANGED <<now, maxRequests, limitMap, memLog>>
  /\ UNCHANGED <<redisVars, cacheVars, ingestVars, cacheCallVars, uploadVars, cosineVars, sweepVars>>

\* the route after `const allowed = await chatRateLimiter.check(ip)`
AfterCheck(q, allowed) ==
  /\ Emit(q, IF allowed THEN "check:true" ELSE "check:false")
  /\ IF allowed
       THEN qpc' = [qpc EXCEPT ![q] = "parse"] /\ UNCHANGED qresp
       ELSE Respond(q, 429, FALSE, NullValue)

\* chatRateLimiter is memoryChatLimiter
GateMemory(q) ==
  /\ qpc[q] = "gate"
  /\ backend = "memory"
  /\ limitMap' = MemoryCheckMap(qreq[q].ip, now)
  /\ AfterCheck(q, MemoryCheckResult(qreq[q].ip, now))
  /\ UNCHANGED <<routeVersion, backend, qreq, cachedResponse, relevantDocs, contextString>>
  /\ UNCHANGED <<now, maxRequests, memLog>>
  /\ UNCHANGED <<redisVars, cacheVars, ingestVars, cacheCallVars, uploadVars, cosineVars, sweepVars>>

\* chatRateLimiter is redisChatLimiter: `await redis.incr(redisKey)`
GateRedisIncr(q) ==
  /\ qpc[q] = "gate"
  /\ backend = "redis"
  /\ redisCounters' = IncrStore(qreq[q].ip)
  /\ IF ExpireNeeded(IncrValue(qreq[q].ip))
       THEN /\ qpc' = [qpc EXCEPT ![q] = "gate_expire"]
            /\ UNCHANGED <<events, qresp>>
       ELSE AfterCheck(q, RedisAllowed(IncrValue(qreq[q].ip)))
  /\ UNCHANGED <<routeVersion, backend, qreq, cachedResponse, relevantDocs, contextString>>
  /\ UNCHANGED <<rpc, rkey, rcount, rtime, redisLog, redisGen>>
  /\ UNCHANGED <<rlVars, cacheVars, ingestVars, cacheCallVars, uploadVars, cosineVars, sweepVars>>

\* `await redis.expire(redisKey, this.windowSec)` after a count of 1
GateRedisExpire(q) ==
  /\ qpc[q] = "gate_expire"
  /\ redisCounters' = ExpireStore(redisCounters, qreq[q].ip, now)
  /\ AfterCheck(q, RedisAllowed(1))
  /\ UNCHANGED <<routeVersion, backend, qreq, cachedResponse, relevantDocs, contextString>>
  /\ UNCHANGED <<rpc, rkey, rcount, rtime, redisLog, redisGen>>
  /\ UNCHANGED <<rlVars, cacheVars, ingestVars, cacheCallVars, uploadVars, cosineVars, sweepVars>>

\* `await req.json()` and the validation of query
ParseBody(q) ==
  /\ qpc[q] = "parse"
  /\ IF ~qreq[q].body.json THEN Respond(q, 500, FALSE, NullValue)
     ELSE IF QueryMissing(qreq[q].body) THEN Respond(q, 400, FALSE, NullValue)
     ELSE qpc' = [qpc EXCEPT ![q] = "embed"] /\ UNCHANGED qresp
  /\ UNCHANGED <<routeVersion, backend, qreq, cachedResponse, relevantDocs, contextString, events>>
  /\ UNCHANGED <<rlVars, redisVars, cacheVars, ingestVars, cacheCallVars, uploadVars, cosineVars, sweepVars>>

\* `const queryEmbedding = await generateEmbedding(query)`
GenerateEmbedding(q) ==
  /\ qpc[q] = "embed"
  /\ Emit(q, "embed")
  /\ qpc' = [qpc EXCEPT ![q] = "lookup"]
  /\ UNCHANGED <<routeVersion, backend, qreq, cachedResponse, relevantDocs, contextString, qresp>>
  /\ UNCHANGED <<rlVars, redisVars, cacheVars, ingestVars, cacheCallVars, uploadVars, cosineVars, sweepVars>>

\* `const cachedResponse = await searchSemanticCache(queryEmbedding, t)` and
\* the return of a hit
CacheLookup(q) ==
  /\ qpc[q] = "lookup"
  /\ cachedResponse' =
       [cachedResponse EXCEPT ![q] = LookupValue(Embed(qreq[q].body.query))]
  /\ Emit(q, IF LookupValue(Embed(qreq[q].body.query)).kind = "null"
               THEN "lookup:miss" ELSE "lookup:hit")
  /\ IF CachedResponseTruthy(LookupValue(Embed(qreq[q].body.query)))
       THEN Respond(q, 200, TRUE, LookupValue(Embed(qreq[q].body.query)))
       ELSE qpc' = [qpc EXCEPT ![q] = "vector"] /\ UNCHANGED qresp
  /\ UNCHANGED <<routeVersion, backend, qreq, relevantDocs, contextString>>
  /\ UNCHANGED <<rlVars, redisVars, cacheVars, ingestVars, cacheCallVars, uploadVars, cosineVars, sweepVars>>

\* `const ragContext = await retrieveContext(...)`; search/route.ts then
\* builds the context string and returns
RetrieveContext(q) ==
  /\ qpc[q] = "vector"
  /\ \E docs \in SearchResults :
       /\ relevantDocs' = [relevantDocs EXCEPT ![q] = docs]
       /\ contextString' = [contextString EXCEPT ![q] = BuildContextString(docs)]
       /\ IF routeVersion = "part_002"
            THEN qpc' = [qpc EXCEPT ![q] = "cache_embed"] /\ UNCHANGED qresp
            ELSE RespondMiss(q, BuildContextString(docs))
  /\ Emit(q, "vector")
  /\ UNCHANGED <<routeVersion, backend, qreq, cachedResponse>>
  /\ UNCHANGED <<rlVars, redisVars, cacheVars, ingestVars, cacheCallVars, uploadVars, cosineVars, sweepVars>>

\* cacheQueryResponse(query, response): `await generateEmbedding(query)`
CacheQueryResponseEmbed(q) ==
  /\ qpc[q] = "cache_embed"
  /\ Emit(q, "embed")
  /\ qpc' = [qpc EXCEPT ![q] = "cache_store"]
  /\ UNCHANGED <<routeVersion, backend, qreq, cachedResponse, relevantDocs, contextString, qresp>>
  /\ UNCHANGED <<rlVars, redisVars, cacheVars, ingestVars, cacheCallVars, uploadVars, cosineVars, sweepVars>>

\* cacheQueryResponse: `await storeInSemanticCache(query, queryEmbedding,
\* response, 3600)`, then the return of the route.  The route calls
\* cacheQueryResponse(query, queryEmbedding, contextString) and parameters
\* bind by position, so response is the embedding.
CacheQueryResponseStore(q) ==
  /\ qpc[q] = "cache_store"
  /\ \E pos \in 1..(Len(cacheHash) + 1) :
       cacheHash' = StoreHash(cacheHash, pos,
                              NewEntry(Embed(qreq[q].body.query),
                                       ArrayValue(Embed(qreq[q].body.query))))
  /\ cacheExpireAt' = now + Ttl
  /\ Emit(q, "cache_store")
  /\ RespondMiss(q, contextString[q])
  /\ UNCHANGED <<routeVersion, backend, qreq, cachedResponse, relevantDocs, contextString>>
  /\ UNCHANGED stored
  /\ UNCHANGED <<rlVars, redisVars, ingestVars, cacheCallVars, uploadVars, cosineVars, sweepVars>>

\* redis.incr or redis.expire rejects (the store is unreachable): check has
\* no handler, the catch of the route answers
RedisCommandFails(q) ==
  /\ \/ qpc[q] = "gate" /\ backend = "redis"
     \/ qpc[q] = "gate_expire"
  /\ Emit(q, "check:error")
  /\ Respond(q, 500, FALSE, NullValue)
  /\ UNCHANGED <<routeVersion, backend, qreq, cachedResponse, relevantDocs, contextString>>
  /\ UNCHANGED <<rlVars, redisVars, cacheVars, ingestVars, cacheCallVars, uploadVars, cosineVars, sweepVars>>

\* generateEmbedding: the provider call fails, the catch throws
\* Error("Failed to generate embedding"), the catch of the route answers
EmbeddingFails(q) ==
  /\ qpc[q] = "embed"
  /\ Emit(q, "embed:error")
  /\ Respond(q, 500, FALSE, NullValue)
  /\ UNCHANGED <<routeVersion, backend, qreq, cachedResponse, relevantDocs, contextString>>
  /\ UNCHANGED <<rlVars, redisVars, cacheVars, ingestVars, cacheCallVars, uploadVars, cosineVars, sweepVars>>

RetrieveContextSwallows == FALSE
\* the catch of retrieveContext: `throw error`
RetrieveContextRethrows == TRUE

\* retrieveContext: searchSimilarDocuments throws
\* Error("Failed to search documents: ...")
VectorSearchFails(q) ==
  /\ qpc[q] = "vector"
  /\ Emit(q, "vector:error")
  /\ IF RetrieveContextRethrows
       THEN Respond(q, 500, FALSE, NullValue)
     ELSE IF routeVersion = "part_002"
       THEN qpc' = [qpc EXCEPT ![q] = "cache_embed"] /\ UNCHANGED qresp
     ELSE RespondMiss(q, contextString[q])
  /\ UNCHANGED <<routeVersion, backend, qreq, cachedResponse, relevantDocs, contextString>>
  /\ UNCHANGED <<rlVars, redisVars, cacheVars, ingestVars, cacheCallVars, uploadVars, cosineVars, sweepVars>>

CacheQueryResponseRethrows == FALSE
\* the catch of cacheQueryResponse logs and returns: "Don't throw"
CacheQueryResponseSwallows == TRUE

\* what the route does when cacheQueryResponse has ended on a failure
AfterCacheFailure(q) ==
  IF CacheQueryResponseSwallows
    THEN RespondMiss(q, contextString[q])
    ELSE Respond(q, 500, FALSE, NullValue)

\* cacheQueryResponse: generateEmbedding throws
\* Error("Failed to generate embedding")
CacheEmbedFails(q) ==
  /\ qpc[q] = "cache_embed"
  /\ Emit(q, "cache_embed:error")
  /\ AfterCacheFailure(q)
  /\ UNCHANGED <<routeVersion, backend, qreq, cachedResponse, relevantDocs, contextString>>
  /\ UNCHANGED <<rlVars, redisVars, cacheVars, ingestVars, cacheCallVars, uploadVars, cosineVars, sweepVars>>

\* cacheQueryResponse: the store fails at its first command (HSET rejects),
\* nothing is written
CacheStoreFails(q) ==
  /\ qpc[q] = "cache_store"
  /\ Emit(q, "cache_store:error")
  /\ AfterCacheFailure(q)
  /\ UNCHANGED <<routeVersion, backend, qreq, cachedResponse, relevantDocs, contextString>>
  /\ UNCHANGED <<rlVars, redisVars, cacheVars, ingestVars, cacheCallVars, uploadVars, cosineVars, sweepVars>>

InitQuerySpec ==
  /\ now = 0
  /\ InitLimiter({1})
  /\ InitCache
  /\ InitCacheCalls
  /\ InitIngest
  /\ InitUpload({"part_001"})
  /\ InitCosine({<<1, 0>>})
  /\ InitSweep
  /\ InitQuery({"part_002", "route.ts"}, {"memory", "redis"})

NextQuery ==
  \/ \E q \in Requests, ip \in Keys, body \in Bodies : Receive(q, ip, body)
  \/ \E q \in Requests : GateMemory(q)
  \/ \E q \in Requests : GateRedisIncr(q)
  \/ \E q \in Requests : GateRedisExpire(q)
  \/ \E q \in Requests : ParseBody(q)
  \/ \E q \in Requests : GenerateEmbedding(q)
  \/ \E q \in Requests : CacheLookup(q)
  \/ \E q \in Requests : RetrieveContext(q)
  \/ \E q \in Requests : CacheQueryResponseEmbed(q)
  \/ \E q \in Requests : CacheQueryResponseStore(q)

NextQueryFault ==
  \/ NextQuery
  \/ \E q \in Requests : RedisCommandFails(q)
  \/ \E q \in Requests : EmbeddingFails(q)
  \/ \E q \in Requests : VectorSearchFails(q)
  \/ \E q \in Requests : CacheEmbedFails(q)
  \/ \E q \in Requests : CacheStoreFails(q)

SpecQuery == InitQuerySpec /\ [][NextQuery]_vars
\* the same, with a store of the rate limiter that can fail
SpecQueryFault == InitQuerySpec /\ [][NextQueryFault]_vars

Has(q, event) == \E n \in 1..Len(events[q]) : events[q][n] = event
Before(q, first, second) ==
  \A n \in 1..Len(events[q]) :
    events[q][n] = second => \E m \in 1..(n - 1) : events[q][m] = first

(***************************************************************************)
(* C8.  Within one query the cache lookup runs before any vector search;   *)
(* on a hit the cached response is returned, the vector store is not       *)
(* queried and the cache is not written; on a miss the vector search has   *)
(* completed before the cache store is issued.                             *)
(***************************************************************************)
C8_PipelineOrder ==
  \A q \in Requests :
    /\ Before(q, "lookup:miss", "vector")
    /\ Before(q, "vector", "cache_store")
    /\ Has(q, "lookup:hit") =>
         /\ ~Has(q, "vector")
         /\ ~Has(q, "cache_store")
         /\ qpc[q] = "done"
         /\ qresp[q].status = 200
         /\ qresp[q].cached
         /\ qresp[q].response.kind # "null"
         /\ qresp[q].response = cachedResponse[q]

\* q1 missed, searched and stored; q2 then hit the entry of q1
C8_Witness ==
  /\ events["q1"] = <<"check:true", "embed", "lookup:miss", "vector", "embed",
                      "cache_store">>
  /\ Has("q2", "lookup:hit")
  /\ qresp["q2"].status = 200

(***************************************************************************)
(* C9.  The rate-limiter gate is the first step of every query: a query    *)
(* whose check returned false is answered 429 and makes no embedding call, *)
(* no cache lookup, no vector search and no cache store; every query that  *)
(* reaches the embedding provider has passed a check that returned true.   *)
(***************************************************************************)
C9_GateFirst ==
  \A q \in Requests :
    /\ Has(q, "check:false") =>
         /\ events[q] = <<"check:false">>
         /\ qpc[q] = "done"
         /\ qresp[q].status = 429
    /\ Has(q, "embed") => events[q][1] = "check:true"

(***************************************************************************)
(* C10.  A failure of the limiter's backing store during check(key) is     *)
(* absorbed in the rate-limit layer: check resolves to true or false, and  *)
(* the route does not answer the failure with a 500.                       *)
(***************************************************************************)
C10_CheckFailureAbsorbed ==
  \A q \in Requests :
    Has(q, "check:error") =>
      /\ Has(q, "check:true") \/ Has(q, "check:false")
      /\ qresp[q].status # 500

(***************************************************************************)
(* storeInSemanticCache and searchSemanticCache call by call: every await  *)
(* of a store (HSET, EXPIRE, HLEN, and HGETALL and HDEL of the eviction)   *)
(* is a step, so the steps of concurrent stores interleave.                *)
(***************************************************************************)
CallerNo(c) == IF c = "c1" THEN 1 ELSE IF c = "c2" THEN 2 ELSE 3

\* the stores started so far
StoresStarted == cret["c1"].calls + cret["c2"].calls + cret["c3"].calls

\* crypto.randomUUID(): an id no other call ever gets
RandomUUID(c) == 10 * (cret[c].calls + 1) + CallerNo(c)

EvictOne(size) == 1
\* `size - MAX_CACHE_ENTRIES`, the argument of evictOldestEntries
EvictionCount(size) == size - MAX_CACHE_ENTRIES

StoreTryWithoutEviction(step) == step \notin {"hgetall", "hdel"}
\* the awaits of storeInSemanticCache inside its try block: all of them,
\* evictOldestEntries being awaited inside it
StoreTryCovers(step) == step \in {"hset", "expire", "hlen", "hgetall", "hdel"}

\* the awaits and the decoding of searchSemanticCache inside its try block
SearchTryCovers(step) == step \in {"hgetall", "parse"}

\* the call of caller c ends: normally, or with an exception
CacheCallEnds(c, op, threw, failed, value) ==
  /\ cpc' = [cpc EXCEPT ![c] = "idle"]
  /\ clocal' = [clocal EXCEPT ![c] = NoLocals]
  /\ cret' = [cret EXCEPT ![c] = [op |-> op, threw |-> threw, failed |-> failed,
                                  value |-> value, size |-> clocal[c].size,
                                  calls |-> @.calls]]

\* storeInSemanticCache is called: the id and the entry are made
StoreStart(c, embedding, response) ==
  /\ cpc[c] = "idle"
  /\ StoresStarted < MaxStores
  /\ cpc' = [cpc EXCEPT ![c] = "hset"]
  /\ clocal' = [clocal EXCEPT ![c] =
                  [entry |-> [id |-> RandomUUID(c), embedding |-> embedding,
                              response |-> response, timestamp |-> now],
                   size |-> 0, keys |-> {}]]
  /\ cret' = [cret EXCEPT ![c] = [NoReturn EXCEPT !.calls = cret[c].calls + 1]]
  /\ UNCHANGED <<cacheVars, garbled>>
  /\ UNCHANGED <<rlVars, redisVars, ingestVars, queryVars, uploadVars, cosineVars, sweepVars>>

\* `await redis.hset(SEMANTIC_CACHE_HASH, id, JSON.stringify(entry))`
StoreHSet(c) ==
  /\ cpc[c] = "hset"
  /\ \E pos \in 1..(Len(cacheHash) + 1) :
       cacheHash' = HSet(cacheHash, pos, clocal[c].entry)
  /\ cpc' = [cpc EXCEPT ![c] = "expire"]
  /\ UNCHANGED <<cacheExpireAt, stored, clocal, cret, garbled>>
  /\ UNCHANGED <<rlVars, redisVars, ingestVars, queryVars, uploadVars, cosineVars, sweepVars>>

\* `await redis.expire(SEMANTIC_CACHE_HASH, ttlSeconds)`: no effect when the
\* hash does not exist
StoreExpire(c) ==
  /\ cpc[c] = "expire"
  /\ cacheExpireAt' = IF Len(cacheHash) > 0 THEN now + Ttl ELSE cacheExpireAt
  /\ cpc' = [cpc EXCEPT ![c] = "hlen"]
  /\ UNCHANGED <<cacheHash, stored, clocal, cret, garbled>>
  /\ UNCHANGED <<rlVars, redisVars, ingestVars, queryVars, uploadVars, cosineVars, sweepVars>>

\* `const size = await redis.hlen(SEMANTIC_CACHE_HASH)` and the test of size
StoreHLen(c) ==
  /\ cpc[c] = "hlen"
  /\ IF SizeOverLimit(Len(cacheHash))
       THEN /\ cpc' = [cpc EXCEPT ![c] = "hgetall"]
            /\ clocal' = [clocal EXCEPT ![c].size = Len(cacheHash)]
            /\ UNCHANGED cret
       ELSE /\ cpc' = [cpc EXCEPT ![c] = "idle"]
            /\ clocal' = [clocal EXCEPT ![c] = NoLocals]
            /\ cret' = [cret EXCEPT ![c] =
                          [op |-> "store", threw |-> FALSE, failed |-> FALSE,
                           value |-> "", size |-> Len(cacheHash),
                           calls |-> @.calls]]
  /\ UNCHANGED <<cacheVars, garbled>>
  /\ UNCHANGED <<rlVars, redisVars, ingestVars, queryVars, uploadVars, cosineVars, sweepVars>>

\* the ids of the entries of hash that do not decode
Undecodable(hash) == {hash[i].id : i \in 1..Len(hash)} \cap garbled

\* evictOldestEntries: `await redis.hgetall`, the decoding of every value,
\* the sort and the slice
EvictHGetAll(c) ==
  /\ cpc[c] = "hgetall"
  /\ IF Undecodable(cacheHash) # {}
       THEN CacheCallEnds(c, "store", ~StoreTryCovers("hgetall"), TRUE, "")
     ELSE IF OldestKeys(cacheHash, EvictionCount(clocal[c].size)) = {}
       THEN CacheCallEnds(c, "store", FALSE, FALSE, "")
     ELSE /\ cpc' = [cpc EXCEPT ![c] = "hdel"]
          /\ clocal' = [clocal EXCEPT ![c].keys =
                          OldestKeys(cacheHash, EvictionCount(clocal[c].size))]
          /\ UNCHANGED cret
  /\ UNCHANGED <<cacheVars, garbled>>
  /\ UNCHANGED <<rlVars, redisVars, ingestVars, queryVars, uploadVars, cosineVars, sweepVars>>

\* evictOldestEntries: `await redis.hdel(SEMANTIC_CACHE_HASH, ...keys)`; a
\* hash that loses its last field is removed
EvictHDel(c) ==
  /\ cpc[c] = "hdel"
  /\ cacheHash' = HDel(cacheHash, clocal[c].keys)
  /\ cacheExpireAt' = IF Len(HDel(cacheHash, clocal[c].keys)) = 0
                        THEN NoTTL ELSE cacheExpireAt
  /\ garbled' = garbled \ clocal[c].keys
  /\ CacheCallEnds(c, "store", FALSE, FALSE, "")
  /\ UNCHANGED stored
  /\ UNCHANGED <<rlVars, redisVars, ingestVars, queryVars, uploadVars, cosineVars, sweepVars>>

\* the command a store is waiting for rejects (the store is unreachable)
StoreCommandFails(c) ==
  /\ cpc[c] # "idle"
  /\ CacheCallEnds(c, "store", ~StoreTryCovers(cpc[c]), TRUE, "")
  /\ UNCHANGED <<cacheVars, garbled>>
  /\ UNCHANGED <<rlVars, redisVars, ingestVars, queryVars, uploadVars, cosineVars, sweepVars>>

\* the first entry, in iteration order, that stops the loop of
\* searchSemanticCache: one that does not decode or one that reaches t
LoopStops(queryEmbedding, t) ==
  {i \in 1..Len(cacheHash) :
     \/ cacheHash[i].id \in garbled
     \/ i \in Hits(cacheHash, queryEmbedding, t)}

HashAfterSearchEvicting(hash) == EvictOldestEntries(hash, 1)
\* the hash after a searchSemanticCache: HGETALL, a read, is the only command
\* it issues
HashAfterSearch(hash) == hash

\* searchSemanticCache(queryEmbedding, t), its HGETALL having succeeded
SearchCall(c, queryEmbedding, t) ==
  /\ cpc[c] = "idle"
  /\ IF LoopStops(queryEmbedding, t) # {}
        /\ cacheHash[SetMin(LoopStops(queryEmbedding, t))].id \in garbled
       THEN CacheCallEnds(c, "search", ~SearchTryCovers("parse"), TRUE, Absent)
       ELSE CacheCallEnds(c, "search", FALSE, FALSE,
                          SearchSemanticCache(cacheHash, queryEmbedding, t))
  /\ cacheHash' = HashAfterSearch(cacheHash)
  /\ UNCHANGED <<cacheExpireAt, stored, garbled>>
  /\ UNCHANGED <<rlVars, redisVars, ingestVars, queryVars, uploadVars, cosineVars, sweepVars>>

\* searchSemanticCache whose HGETALL rejects
SearchCommandFails(c) ==
  /\ cpc[c] = "idle"
  /\ CacheCallEnds(c, "search", ~SearchTryCovers("hgetall"), TRUE, Absent)
  /\ UNCHANGED <<cacheVars, garbled>>
  /\ UNCHANGED <<rlVars, redisVars, ingestVars, queryVars, uploadVars, cosineVars, sweepVars>>

\* a field of the hash gets a value that is not the JSON of an entry
GarbleEntry(i) ==
  /\ garbled = {}
  /\ i \in 1..Len(cacheHash)
  /\ garbled' = {cacheHash[i].id}
  /\ UNCHANGED <<cacheVars, cpc, clocal, cret>>
  /\ UNCHANGED <<rlVars, redisVars, ingestVars, queryVars, uploadVars, cosineVars, sweepVars>>

StoreSteps ==
  \/ \E c \in CacheCallers : StoreHSet(c)
  \/ \E c \in CacheCallers : StoreExpire(c)
  \/ \E c \in CacheCallers : StoreHLen(c)
  \/ \E c \in CacheCallers : EvictHGetAll(c)
  \/ \E c \in CacheCallers : EvictHDel(c)

\* stores only; the clock stands still, so all timestamps are equal and the
\* place HSET gives an entry decides which entries count as the oldest
NextCacheSteps ==
  \/ \E c \in CacheCallers : StoreStart(c, <<1, 0>>, "sunny")
  \/ StoreSteps

\* one caller stores, another looks up
NextCacheFault ==
  \/ /\ StoresStarted < MaxFaultStores
     /\ \E e \in {<<1, 0>>, <<3, 4>>} : StoreStart("c1", e, "sunny")
  \/ StoreSteps
  \/ \E c \in CacheCallers : StoreCommandFails(c)
  \/ \E t \in Thresholds : SearchCall("c2", <<1, 0>>, t)
  \/ SearchCommandFails("c2")
  \/ \E i \in 1..MAX_CACHE_ENTRIES : GarbleEntry(i)

\* concurrent stores whose commands succeed
SpecCacheSteps == InitCacheSpec /\ [][NextCacheSteps]_vars
\* stores and lookups whose commands can fail and whose entries can be garbled
SpecCacheFault == InitCacheSpec /\ [][NextCacheFault]_vars

(***************************************************************************)
(* C11.  Cache failures never reach the caller: a searchSemanticCache in   *)
(* which the backing-store call or the decoding of an entry fails returns  *)
(* null without throwing; a storeInSemanticCache in which a backing-store  *)
(* call (insert, expire, count, eviction) fails returns without throwing.  *)
(***************************************************************************)
C11_CacheFailuresAbsorbed ==
  \A c \in CacheCallers :
    /\ ~cret[c].threw
    /\ (cret[c].op = "search" /\ cret[c].failed) => cret[c].value = Absent

\* a store whose eviction failed has returned, and a lookup has failed
C11_Witness ==
  /\ cret["c1"].op = "store"
  /\ cret["c1"].failed
  /\ cret["c1"].size > MAX_CACHE_ENTRIES
  /\ cret["c2"].op = "search"
  /\ cret["c2"].failed

(***************************************************************************)
(* C12.  A failure of the embedding call or of the vector search of a      *)
(* query is answered by the route with an error (500), never with a        *)
(* success response, and nothing is written to the cache for that query.   *)
(***************************************************************************)
C12_RetrievalFailureSurfaces ==
  \A q \in Requests :
    (Has(q, "embed:error") \/ Has(q, "vector:error")) =>
      /\ qpc[q] = "done"
      /\ qresp[q].status = 500
      /\ ~Has(q, "cache_store")

\* the vector search of q1 failed after its lookup missed; the embedding
\* call of q2 failed
C12_Witness ==
  /\ Has("q1", "lookup:miss")
  /\ Has("q1", "vector:error")
  /\ Has("q2", "embed:error")
  /\ qresp["q1"].status = 500

(***************************************************************************)
(* The upload route (POST).  Two sources exist: part_001 takes one file,   *)
(* PDF or text; upload/route.ts takes any number of files, PDF only, and   *)
(* processes them in parallel.                                             *)
(***************************************************************************)
ImageFile == [type |-> "image/png", bytes |-> "PNG"]
UploadFiles == {TextFile, PdfFile, BlankFile, ImageFile}

\* the files of an upload request, each one an ingestion when its type is
\* accepted
FilesOfUpload(u) ==
  IF uploadVersion = "part_001"
    THEN (IF u = "u1" THEN {"i1"} ELSE IF u = "u2" THEN {"i2"} ELSE {"i3"})
    ELSE (IF u = "u1" THEN {"i1", "i2"} ELSE IF u = "u2" THEN {"i3"} ELSE {})

UploadOf(i) == CHOOSE u \in Uploads : i \in FilesOfUpload(u)

\* the validation of file.type
TypeAccepted(file) ==
  \/ file.type = "application/pdf"
  \/ uploadVersion = "part_001" /\ file.type = "text/plain"

TypeError ==
  IF uploadVersion = "part_001" THEN "Only PDF and Text files are supported"
  ELSE "Only PDF files are supported"

\* the route takes a file of the request: it refuses its type or calls
\* processPDFDocument / processText
UploadFile(i, file) ==
  /\ ustatus[UploadOf(i)] = 0
  /\ IF TypeAccepted(file) THEN ProcessText(i, file)
     ELSE /\ ipc[i] = "idle"
          /\ ifile' = [ifile EXCEPT ![i] = file]
          /\ ipc' = [ipc EXCEPT ![i] = "done"]
          /\ outcome' = [outcome EXCEPT ![i] = TypeError]
          /\ UNCHANGED <<documents, atStart, icalls>>
          /\ UNCHANGED nonIngestVars

\* the status part_001 answers with
SingleFileStatus(result) ==
  IF result = "success" THEN 201
  ELSE IF result = TypeError THEN 400
  ELSE IF result = "DUPLICATE_DOCUMENT" THEN 409
  ELSE 500

\* the status upload/route.ts answers with: `successCount > 0 ? 201 : 400`,
\* and 400 for a request without files
MultiFileStatus(results) ==
  IF \E i \in DOMAIN results : results[i] = "success" THEN 201 ELSE 400

\* every file of the request has been dealt with: the response
UploadRespond(u) ==
  /\ ustatus[u] = 0
  /\ \A i \in FilesOfUpload(u) : ipc[i] = "done"
  /\ ustatus' = [ustatus EXCEPT ![u] =
       IF uploadVersion = "part_001"
         THEN SingleFileStatus(outcome[CHOOSE i \in FilesOfUpload(u) : TRUE])
         ELSE MultiFileStatus([i \in FilesOfUpload(u) |-> outcome[i]])]
  /\ UNCHANGED uploadVersion
  /\ UNCHANGED ingestVars
  /\ UNCHANGED <<rlVars, redisVars, cacheVars, queryVars, cacheCallVars, cosineVars, sweepVars>>

InitUploadSpec ==
  /\ now = 0
  /\ InitLimiter({1})
  /\ InitCache
  /\ InitCacheCalls
  /\ InitIngest
  /\ InitUpload({"part_001", "route.ts"})
  /\ InitCosine({<<1, 0>>})
  /\ InitSweep
  /\ InitQuery({"part_002"}, {"memory"})

NextUpload ==
  \/ \E i \in Ingestions, file \in UploadFiles : UploadFile(i, file)
  \/ IngestSteps
  \/ \E u \in Uploads : UploadRespond(u)

SpecUpload == InitUploadSpec /\ [][NextUpload]_vars

\* every file of the upload was refused as a duplicate
AllDuplicate(u) ==
  /\ FilesOfUpload(u) # {}
  /\ \A i \in FilesOfUpload(u) : outcome[i] = "DUPLICATE_DOCUMENT"

\* every file of the upload failed, none as a duplicate
OtherFailure(u) ==
  /\ FilesOfUpload(u) # {}
  /\ \A i \in FilesOfUpload(u) :
       outcome[i] \notin {"success", "DUPLICATE_DOCUMENT", "none"}

(***************************************************************************)
(* C13.  An upload whose only failure is DUPLICATE_DOCUMENT is answered    *)
(* with 409: never with a 5xx status and never with the status the route   *)
(* answers other failures with.                                            *)
(***************************************************************************)
C13_DuplicateIs409 ==
  \A u \in Uploads :
    (ustatus[u] # 0 /\ AllDuplicate(u)) =>
      /\ ustatus[u] = 409
      /\ \A v \in Uploads :
           (ustatus[v] # 0 /\ OtherFailure(v)) => ustatus[v] # ustatus[u]

Called(i, call) == \E n \in 1..Len(icalls[i]) : icalls[i][n] = call

(***************************************************************************)
(* C14.  The dedup gate runs before any embedding work: in every ingestion *)
(* the existence check has completed before generateBatchEmbeddings is     *)
(* called, and an ingestion whose check found the hash chunks nothing,     *)
(* embeds nothing and inserts nothing.                                     *)
(***************************************************************************)
C14_DedupBeforeEmbedding ==
  \A i \in Ingestions :
    /\ \A n \in 1..Len(icalls[i]) :
         icalls[i][n] \in {"chunk", "embed", "insert"} =>
           (n > 1 /\ icalls[i][1] = "exists:false")
    /\ Called(i, "exists:true") =>
         /\ icalls[i] = <<"exists:true">>
         /\ outcome[i] = "DUPLICATE_DOCUMENT"
         /\ \A row \in documents : row.by # i

\* i1 ran to its inserts, i2 was then refused at the gate
C14_Witness ==
  /\ icalls["i1"] = <<"exists:false", "chunk", "embed", "insert">>
  /\ icalls["i2"] = <<"exists:true">>

\* the cosine similarity of a and b, as the doubles give it, is at least the
\* threshold t = <<numerator, denominator>>
SimilarityAtLeast(a, b, t) ==
  /\ Norm2(a) > 0
  /\ Norm2(b) > 0
  /\ Dot(a, b) > 0
  /\ \/ Dot(a, b) * Dot(a, b) * t[2] * t[2] > t[1] * t[1] * Norm2(a) * Norm2(b)
     \/ /\ Dot(a, b) * Dot(a, b) * t[2] * t[2] = t[1] * t[1] * Norm2(a) * Norm2(b)
        /\ ~(Norm2(a) = 2 /\ Norm2(b) = 2)

Reaching(e, t) ==
  {i \in 1..Len(cacheHash) : SimilarityAtLeast(e, cacheHash[i].embedding, t)}

(***************************************************************************)
(* C15.  searchSemanticCache(e, t) returns null iff no live entry has a    *)
(* similarity to e of at least t; otherwise it returns the response of the *)
(* first such entry in iteration order, which need not be the most similar *)
(* one.                                                                    *)
(***************************************************************************)
C15_FirstMatch ==
  \A e \in Embeddings, t \in Thresholds :
    /\ SearchSemanticCache(cacheHash, e, t) = Absent <=> Reaching(e, t) = {}
    /\ Reaching(e, t) # {} =>
         \E i \in Reaching(e, t) :
           /\ \A j \in Reaching(e, t) : i <= j
           /\ SearchSemanticCache(cacheHash, e, t) = cacheHash[i].response

\* two entries reach 0.7 for <<1, 1>>; the first one is the less similar one
\* and its response is returned
C15_Witness ==
  /\ Len(cacheHash) = 2
  /\ cacheHash[1].embedding = <<1, 0>>
  /\ cacheHash[1].response = "sunny"
  /\ cacheHash[2].embedding = <<3, 4>>
  /\ cacheHash[2].response = "rainy"
  /\ Reaching(<<1, 1>>, <<7, 10>>) = {1, 2}
  /\ SearchSemanticCache(cacheHash, <<1, 1>>, <<7, 10>>) = "sunny"

(***************************************************************************)
(* RedisRateLimiter.check with a store whose EXPIRE can fail: the command  *)
(* rejects, check has no handler, and the call ends with the exception.    *)
(***************************************************************************)
RedisExpireFails(p) ==
  /\ rpc[p] = "expire"
  /\ rpc' = [rpc EXCEPT ![p] = "idle"]
  /\ rkey' = [rkey EXCEPT ![p] = "ip-1"]
  /\ rcount' = [rcount EXCEPT ![p] = 0]
  /\ rtime' = [rtime EXCEPT ![p] = 0]
  /\ UNCHANGED <<redisCounters, redisLog, redisGen>>
  /\ UNCHANGED rlVars
  /\ UNCHANGED nonLimiterVars

NextRedisFault ==
  \/ NextRedis
  \/ \E p \in Procs : RedisExpireFails(p)

SpecRedisFault == InitRL /\ [][NextRedisFault]_vars

(***************************************************************************)
(* C16.  Distributed backend: every counter auto-expires.  In every        *)
(* execution, also when a store call of check fails after the increment,   *)
(* a counter that exists in the store carries an expiry (once the call     *)
(* that created it has ended), so it is removed when its window is over.   *)
(***************************************************************************)
C16_CountersExpire ==
  \A key \in DOMAIN redisCounters :
    InFlight(key) = {} => redisCounters[key].expireAt # NoTTL

(***************************************************************************)
(* C17.  cacheQueryResponse never propagates a failure: when its embedding *)
(* call or its cache store has failed, it has returned normally and the    *)
(* query has answered 200, not cached, with the context string built from  *)
(* the documents it retrieved.                                             *)
(***************************************************************************)
C17_CacheResponseFailureAbsorbed ==
  \A q \in Requests :
    (Has(q, "cache_embed:error") \/ Has(q, "cache_store:error")) =>
      /\ qpc[q] = "done"
      /\ qresp[q].status = 200
      /\ ~qresp[q].cached
      /\ qresp[q].contextString # NoContextString
      /\ qresp[q].contextString = BuildContextString(relevantDocs[q])

\* q1 found a document and its store failed, the embedding call of q2 inside
\* cacheQueryResponse failed: both were answered
C17_Witness ==
  /\ Has("q1", "cache_store:error")
  /\ Len(relevantDocs["q1"]) = 1
  /\ Has("q2", "cache_embed:error")
  /\ qresp["q1"].status = 200
  /\ qresp["q2"].status = 200

(***************************************************************************)
(* buildContextString as a function of its argument: the documents are     *)
(* drawn at the start, the route applies the function once.                *)
(***************************************************************************)
MaxDocs == 2

ContextDocs ==
  {Doc(content, similarity) :
     content \in {"Agents use tools", "Agents plan.", ""},
     similarity \in {0, 7049, 8000, 10000}}

DocLists == UNION {[1..n -> ContextDocs] : n \in 0..MaxDocs}

\* `const contextString = buildContextString(ragContext.relevantDocs)`
BuildContext(q) ==
  /\ qpc[q] = "build"
  /\ contextString' = [contextString EXCEPT ![q] = BuildContextString(relevantDocs[q])]
  /\ qpc' = [qpc EXCEPT ![q] = "built"]
  /\ UNCHANGED <<routeVersion, backend, qreq, cachedResponse, relevantDocs, events, qresp>>
  /\ UNCHANGED <<rlVars, redisVars, cacheVars, ingestVars, cacheCallVars, uploadVars, cosineVars, sweepVars>>

InitContextSpec ==
  /\ now = 0
  /\ InitLimiter({1})
  /\ InitCache
  /\ InitCacheCalls
  /\ InitIngest
  /\ InitUpload({"part_001"})
  /\ InitCosine({<<1, 0>>})
  /\ InitSweep
  /\ routeVersion \in {"part_002", "route.ts"}
  /\ backend = "memory"
  /\ qpc = [q \in Requests |-> IF q = "q1" THEN "build" ELSE "idle"]
  /\ qreq = [q \in Requests |-> [ip |-> "ip-1", body |-> [json |-> FALSE, query |-> ""]]]
  /\ cachedResponse = [q \in Requests |-> NullValue]
  /\ \E docs \in DocLists :
       relevantDocs = [q \in Requests |-> IF q = "q1" THEN docs ELSE << >>]
  /\ contextString = [q \in Requests |-> NoContextString]
  /\ events = [q \in Requests |-> << >>]
  /\ qresp = [q \in Requests |-> NoResponse]

NextContext == \E q \in Requests : BuildContext(q)

SpecContext == InitContextSpec /\ [][NextContext]_vars

\* the positions of a piece in a string
PositionsOf(piece, text) == {n \in 1..Len(text) : text[n] = piece}
\* the k-th smallest member of a set of positions
KthOf(positions, k) ==
  CHOOSE p \in positions : Cardinality({r \in positions : r < p}) = k - 1
\* a string with no character in it
IsEmptyString(text) == \A n \in 1..Len(text) : text[n] = ""

(***************************************************************************)
(* C18.  buildContextString(docs) is the "No relevant information found    *)
(* in the knowledge base." sentinel exactly when docs is empty; for a      *)
(* non-empty docs it has one block per document, in input order, numbered  *)
(* 1..n, joined by the separator; it is never the empty string.            *)
(***************************************************************************)
C18_ContextBlocks ==
  \A q \in Requests :
    qpc[q] = "built" =>
      LET docs == relevantDocs[q]
          out == contextString[q]
          heads == PositionsOf("[Document ", out)
          tails == PositionsOf("%)\n", out)
      IN  /\ (out = <<"No relevant information found in the knowledge base.">>)
               <=> (docs = << >>)
          /\ ~IsEmptyString(out)
          /\ docs # << >> =>
               /\ Cardinality(heads) = Len(docs)
               /\ Cardinality(tails) = Len(docs)
               /\ Cardinality(PositionsOf("\n\n---\n\n", out)) = Len(docs) - 1
               /\ 1 \in heads
               /\ Len(out) \in {t + 1 : t \in tails}
               /\ \A k \in 1..Len(docs) :
                    /\ SubSeq(out, KthOf(heads, k) + 1,
                              KthOf(heads, k) + Len(Decimal(k)) + 1)
                         = Decimal(k) \o <<"] (Relevance: ">>
                    /\ KthOf(heads, k) < KthOf(tails, k)
                    /\ out[KthOf(tails, k) + 1] = docs[k].content

\* two documents, relevance 70.49% and 100%
C18_Witness ==
  /\ qpc["q1"] = "built"
  /\ relevantDocs["q1"] = <<Doc("Agents plan.", 7049), Doc("Agents use tools", 10000)>>
  /\ contextString["q1"] =
       <<"[Document ", "1", "] (Relevance: ", "7", "0", ".", "5", "%)\n",
         "Agents plan.", "\n\n---\n\n",
         "[Document ", "2", "] (Relevance: ", "1", "0", "0", ".", "0", "%)\n",
         "Agents use tools">>

(***************************************************************************)
(* cosineSimilarity as a function of its arguments: a and b are drawn at   *)
(* the start, the function is applied to <<a, b>> and to <<b, a>>.         *)
(***************************************************************************)
Components == {0, 1, 2}
Vectors == Components \X Components

\* cosineSimilarity(a, b) and cosineSimilarity(b, a) return
ApplyCosine ==
  /\ ~simResult.called
  /\ simResult' = [called |-> TRUE,
                   ab |-> CosineSimilarity(simArgs[1], simArgs[2]),
                   ba |-> CosineSimilarity(simArgs[2], simArgs[1])]
  /\ UNCHANGED simArgs
  /\ UNCHANGED <<rlVars, redisVars, cacheVars, ingestVars, queryVars,
                 cacheCallVars, uploadVars, sweepVars>>

InitCosineSpec ==
  /\ now = 0
  /\ InitLimiter({1})
  /\ InitCache
  /\ InitCacheCalls
  /\ InitIngest
  /\ InitUpload({"part_001"})
  /\ InitQuery({"part_002"}, {"memory"})
  /\ InitCosine(Vectors)
  /\ InitSweep

NextCosine == ApplyCosine

SpecCosine == InitCosineSpec /\ [][NextCosine]_vars

\* the double is 1.0 within floating-point tolerance: not NaN, and the exact
\* quotient is 1
IsOneWithinTolerance(sim) ==
  /\ ~sim.nan
  /\ sim.dot > 0
  /\ sim.dot * sim.dot = sim.nn

(***************************************************************************)
(* C19.  For all equal-length embeddings a and b, cosineSimilarity(a, b)   *)
(* and cosineSimilarity(b, a) are the same result, and                     *)
(* cosineSimilarity(a, a) is 1.0 (within floating-point tolerance) for     *)
(* every embedding a, the all-zero vector included.                        *)
(***************************************************************************)
C19_SymmetricAndSelfOne ==
  simResult.called =>
    /\ simResult.ab = simResult.ba
    /\ simArgs[1] = simArgs[2] => IsOneWithinTolerance(simResult.ab)

\* the part of C19 that holds: the two orders give the same result, and a
\* vector with a non-zero component has similarity 1.0 to itself
C19_NonZero ==
  simResult.called =>
    /\ simResult.ab = simResult.ba
    /\ (simArgs[1] = simArgs[2] /\ simArgs[1] # <<0, 0>>)
         => IsOneWithinTolerance(simResult.ab)

(***************************************************************************)
(* C20.  Concurrent stores do not corrupt the size bound: for every        *)
(* interleaving of the commands (HSET, EXPIRE, HLEN, HGETALL, HDEL) of     *)
(* concurrent storeInSemanticCache calls, whenever no store is in flight   *)
(* the hash has at most MAX_CACHE_ENTRIES entries.                         *)
(***************************************************************************)
C20_QuiescentSizeBound ==
  (\A c \in CacheCallers : cpc[c] = "idle") => Len(cacheHash) <= MAX_CACHE_ENTRIES

\* no store is in flight, the hash is full, and the HLEN of one store counted
\* the entries of two stores above the bound
C20_Witness ==
  /\ \A c \in CacheCallers : cpc[c] = "idle"
  /\ Len(cacheHash) = MAX_CACHE_ENTRIES
  /\ \E c \in CacheCallers : cret[c].size = MAX_CACHE_ENTRIES + 2

(***************************************************************************)
(* C21.  Eviction stops at the bound: no step of a storeInSemanticCache    *)
(* call, alone or interleaved with other stores, removes entries so that   *)
(* fewer than MAX_CACHE_ENTRIES are left.                                  *)
(***************************************************************************)
C21_EvictionStopsAtBound ==
  [][Len(cacheHash') < Len(cacheHash) => Len(cacheHash') >= MAX_CACHE_ENTRIES]_vars

(***************************************************************************)
(* Concurrent stores with a running clock: the entries of two callers get  *)
(* different timestamps, and the hash can expire between two commands.     *)
(***************************************************************************)
MaxClockStores == 3
MaxClockTime == 2

NextCacheClock ==
  \/ /\ StoresStarted < MaxClockStores
     /\ \E c \in {"c1", "c2"} : StoreStart(c, <<1, 0>>, "sunny")
  \/ StoreSteps
  \/ now < MaxClockTime /\ Tick

SpecCacheClock == InitCacheSpec /\ [][NextCacheClock]_vars

\* the entries of the hash whose key is in keys, and the others
Chosen(keys) == {i \in 1..Len(cacheHash) : cacheHash[i].id \in keys}
Spared(keys) == {i \in 1..Len(cacheHash) : cacheHash[i].id \notin keys}

(***************************************************************************)
(* C22.  Eviction is oldest-first: the keys an eviction pass takes from    *)
(* the hash it has read are no younger than any entry of that hash it      *)
(* leaves, its HDEL removes no other entry, and the entry of the evicting  *)
(* store is not taken while a strictly older entry of the hash it read is  *)
(* left.                                                                   *)
(***************************************************************************)
C22_OldestFirst ==
  [][\A c \in CacheCallers :
       /\ (cpc[c] = "hgetall" /\ cpc'[c] = "hdel") =>
            /\ clocal'[c].keys # {}
            /\ \A i \in Chosen(clocal'[c].keys), j \in Spared(clocal'[c].keys) :
                 cacheHash[i].timestamp <= cacheHash[j].timestamp
            /\ clocal[c].entry.id \in clocal'[c].keys =>
                 \A j \in Spared(clocal'[c].keys) :
                   cacheHash[j].timestamp >= clocal[c].entry.timestamp
       /\ cpc[c] = "hdel" /\ cpc'[c] = "idle" =>
            /\ \A i \in Spared(clocal[c].keys) :
                 \E j \in 1..Len(cacheHash') : cacheHash'[j] = cacheHash[i]
            /\ \A j \in 1..Len(cacheHash') : cacheHash'[j].id \notin clocal[c].keys
    ]_vars

\* a pass has read a hash with an old and a younger entry and has taken the
\* old one and left the younger one and the entry of its own store
C22_Witness ==
  \E c \in CacheCallers :
    /\ cpc[c] = "hdel"
    /\ clocal[c].entry.id \notin clocal[c].keys
    /\ \E i \in Chosen(clocal[c].keys), j \in Spared(clocal[c].keys) :
         cacheHash[i].timestamp < cacheHash[j].timestamp

(***************************************************************************)
(* C23.  Sliding cache-wide TTL: the EXPIRE of every store sets the expiry *)
(* of the whole cache to now + ttl whatever it was before; entries have no *)
(* expiry of their own, so the passing of time removes no entry before the *)
(* cache-wide expiry has passed and then removes all entries together.     *)
(***************************************************************************)
C23_SlidingTtl ==
  [][/\ \A c \in CacheCallers :
          (cpc[c] = "expire" /\ cpc'[c] = "hlen") => cacheExpireAt' = now + Ttl
     /\ (now' # now /\ cacheHash' # cacheHash) =>
          /\ cacheHash' = << >>
          /\ cacheExpireAt # NoTTL
          /\ now' >= cacheExpireAt
    ]_vars

\* the part of C23 that holds: an EXPIRE that finds the hash sets its expiry
\* to now + ttl, and time removes all entries together, at the expiry
C23_SlidingTtlOfLiveHash ==
  [][/\ \A c \in CacheCallers :
          (cpc[c] = "expire" /\ cpc'[c] = "hlen" /\ Len(cacheHash) > 0)
            => cacheExpireAt' = now + Ttl
     /\ (now' # now /\ cacheHash' # cacheHash) =>
          /\ cacheHash' = << >>
          /\ cacheExpireAt # NoTTL
          /\ now' >= cacheExpireAt
    ]_vars

\* caller c has ended a searchSemanticCache in this step
SearchEnds(c) ==
  /\ cpc[c] = "idle"
  /\ cpc'[c] = "idle"
  /\ cret'[c] # cret[c]
  /\ cret'[c].op = "search"

(***************************************************************************)
(* C24.  Lookup is read-only: a searchSemanticCache that hits, misses or   *)
(* fails leaves the entries and the expiry of the cache as they were;      *)
(* entries are removed, other than by the passing of time, only by the     *)
(* HDEL of a storeInSemanticCache.                                         *)
(***************************************************************************)
C24_LookupReadOnly ==
  [][/\ \A c \in CacheCallers :
          SearchEnds(c) => cacheHash' = cacheHash /\ cacheExpireAt' = cacheExpireAt
     /\ (now' = now /\ \E i \in 1..Len(cacheHash) :
                         \A j \in 1..Len(cacheHash') : cacheHash'[j] # cacheHash[i])
          => \E c \in CacheCallers : cpc[c] = "hdel" /\ cpc'[c] = "idle"
    ]_vars

\* a lookup has hit while the cache is full, and the cache is still full
C24_Witness ==
  /\ cret["c2"].op = "search"
  /\ cret["c2"].value = "sunny"
  /\ ~cret["c2"].failed
  /\ Len(cacheHash) = MAX_CACHE_ENTRIES

(***************************************************************************)
(* The stores of one caller, one after the other, whose eviction pass can  *)
(* fail: the HGETALL or the HDEL of evictOldestEntries rejects.            *)
(***************************************************************************)
MaxEvictStores == 4

\* the command an eviction pass is waiting for rejects
EvictionFails(c) ==
  /\ cpc[c] \in {"hgetall", "hdel"}
  /\ StoreCommandFails(c)

NextEvictFault ==
  \/ /\ StoresStarted < MaxEvictStores
     /\ StoreStart("c1", <<1, 0>>, "sunny")
  \/ StoreSteps
  \/ EvictionFails("c1")

SpecEvictFault == InitCacheSpec /\ [][NextEvictFault]_vars

(***************************************************************************)
(* C25.  A failed eviction pass is not fatal and loses no data: the store  *)
(* whose eviction fails returns normally, removes no entry and leaves the  *)
(* cache oversized; the next store whose commands all succeed leaves at    *)
(* most MAX_CACHE_ENTRIES entries.                                         *)
(***************************************************************************)
C25_FailedEvictionRetried ==
  [][/\ (cpc["c1"] \in {"hgetall", "hdel"} /\ cpc'["c1"] = "idle"
           /\ cret'["c1"].failed) =>
          /\ ~cret'["c1"].threw
          /\ cacheHash' = cacheHash
          /\ Len(cacheHash') > MAX_CACHE_ENTRIES
     /\ (cpc["c1"] # "idle" /\ cpc'["c1"] = "idle" /\ ~cret'["c1"].failed) =>
          Len(cacheHash') <= MAX_CACHE_ENTRIES
    ]_vars

\* the eviction of a store failed, the store after it counted two entries
\* above the bound, evicted them and ended without a failure
C25_Witness ==
  /\ cpc["c1"] = "idle"
  /\ cret["c1"].op = "store"
  /\ ~cret["c1"].failed
  /\ cret["c1"].size = MAX_CACHE_ENTRIES + 2
  /\ Len(cacheHash) = MAX_CACHE_ENTRIES

(***************************************************************************)
(* C26.  Source-document granularity of dedup: every row an ingestion has  *)
(* inserted carries, in source_hash, the hash of the whole text of that    *)
(* ingestion, the same for all its chunks; after a successful ingestion    *)
(* there is one such row per chunk and the existence check for that hash   *)
(* is true.                                                                *)
(***************************************************************************)
C26_WholeTextHashOnEveryChunk ==
  \A i \in Ingestions :
    /\ \A row \in documents :
         row.by = i => row.source_hash = <<"sha256", ExtractText(ifile[i])>>
    /\ outcome[i] = "success" =>
         /\ \A c \in 0..(Len(ChunkText(ExtractText(ifile[i]))) - 1) :
              \E row \in documents :
                /\ row.by = i
                /\ row.chunkIndex = c
                /\ row.source_hash = <<"sha256", ExtractText(ifile[i])>>
         /\ CheckDocumentExists(<<"sha256", ExtractText(ifile[i])>>)

\* a text of two chunks was ingested: two rows, one hash
C26_Witness ==
  \E i \in Ingestions :
    /\ outcome[i] = "success"
    /\ Len(ChunkText(ExtractText(ifile[i]))) = 2
    /\ Cardinality({row \in documents : row.by = i}) = 2

\* the calls of check(key) that returned true and whose INCR ran in the
\* interval [from, from + Window]
AllowedIn(key, from) ==
  {e \in redisLog[key] : e.r /\ from <= e.t /\ e.t <= from + Window}

(***************************************************************************)
(* C27.  Distributed backend burst bound: for one key, in any interval of  *)
(* the length of one window, at most 2 * maxRequests calls of check(key)   *)
(* return true (a call is placed at the instant of its INCR).              *)
(***************************************************************************)
C27_BurstBound ==
  \A key \in Keys, from \in 0..MaxTime :
    Cardinality(AllowedIn(key, from)) <= 2 * maxRequests

\* maxRequests is 1; one interval holds an allowed call of one window, an
\* allowed call of the next window and a refused call
C27_Witness ==
  /\ maxRequests = 1
  /\ \E from \in 0..MaxTime :
       /\ Cardinality(AllowedIn("ip-1", from)) = 2
       /\ \E e \in redisLog["ip-1"] : ~e.r /\ from <= e.t /\ e.t <= from + Window

(***************************************************************************)
(* cleanup() of MemoryRateLimiter.  Two limiters with the same maxRequests *)
(* and window get the same calls of check at the same instants; cleanup()  *)
(* is called, at any point, on the first one only.                         *)
(***************************************************************************)
MaxSweeps == 2

\* check(key) at time t on a limiter whose limitMap is map: the result
CheckResultIn(map, key, t) ==
  IF key \notin DOMAIN map \/ t > map[key].resetTime THEN TRUE
  ELSE ~MemoryLimitReached(map[key])

\* check(key) at time t on a limiter whose limitMap is map: the map after it
CheckMapIn(map, key, t) ==
  IF key \notin DOMAIN map \/ t > map[key].resetTime
    THEN MapSet(map, key, [count |-> 1, resetTime |-> t + Window])
  ELSE IF MemoryLimitReached(map[key]) THEN map
  ELSE MapSet(map, key, [count |-> map[key].count + 1,
                         resetTime |-> map[key].resetTime])

\* check(key) on both limiters
CheckSwept(key) ==
  /\ Len(memLog["ip-1"]) + Len(memLog["ip-2"]) < MaxCalls
  /\ limitMap' = MemoryCheckMap(key, now)
  /\ memLog' = [memLog EXCEPT
                  ![key] = Append(@, [t |-> now, r |-> MemoryCheckResult(key, now)])]
  /\ plainMap' = CheckMapIn(plainMap, key, now)
  /\ UNCHANGED <<now, maxRequests, sweeps>>
  /\ UNCHANGED redisVars
  /\ UNCHANGED <<cacheVars, ingestVars, queryVars, cacheCallVars, uploadVars,
                 cosineVars>>

SweepExpiredEarly(record, t) == t >= record.resetTime
\* `now > record.resetTime`
SweepExpired(record, t) == t > record.resetTime

\* cleanup()
Cleanup ==
  /\ sweeps < MaxSweeps
  /\ sweeps' = sweeps + 1
  /\ limitMap' = [k \in {key \in DOMAIN limitMap : ~SweepExpired(limitMap[key], now)}
                    |-> limitMap[k]]
  /\ UNCHANGED <<now, maxRequests, memLog, plainMap>>
  /\ UNCHANGED redisVars
  /\ UNCHANGED <<cacheVars, ingestVars, queryVars, cacheCallVars, uploadVars,
                 cosineVars>>

NextSweep ==
  \/ \E key \in Keys : CheckSwept(key)
  \/ Cleanup
  \/ Tick

SpecSweep == InitRL /\ [][NextSweep]_vars

(***************************************************************************)
(* C28.  The local sweep is safe: cleanup() removes exactly the records    *)
(* whose window has expired (now > resetTime) and leaves every other       *)
(* record as it is, and every check gets the result it gets on a limiter   *)
(* that had the same checks and no cleanup().                              *)
(***************************************************************************)
C28_SweepSafe ==
  [][/\ sweeps' # sweeps =>
          /\ DOMAIN limitMap' =
               {key \in DOMAIN limitMap : now <= limitMap[key].resetTime}
          /\ \A key \in DOMAIN limitMap' : limitMap'[key] = limitMap[key]
     /\ \A key \in Keys :
          memLog'[key] # memLog[key] =>
            memLog'[key][Len(memLog'[key])].r = CheckResultIn(plainMap, key, now)
    ]_vars

\* cleanup() has removed the expired record of ip-2, which the other limiter
\* still has, and a check of ip-1 after its window got the same record on both
C28_Witness ==
  /\ sweeps >= 1
  /\ "ip-2" \in DOMAIN plainMap
  /\ "ip-2" \notin DOMAIN limitMap
  /\ "ip-1" \in DOMAIN limitMap
  /\ plainMap["ip-1"] = limitMap["ip-1"]
  /\ Len(memLog["ip-1"]) = 2
  /\ memLog["ip-1"][2].t > memLog["ip-1"][1].t + Window

(***************************************************************************)
(* The local limiter as the program runs it: the routes call check, time   *)
(* passes, and nothing calls cleanup() (no timer is set up for it).        *)
(***************************************************************************)
SpecMemFair == InitRL /\ [][NextMem]_vars /\ WF_vars(Tick)

\* the record of key is in the map and its window has expired
ExpiredRecord(key) ==
  key \in DOMAIN limitMap /\ now > limitMap[key].resetTime

(***************************************************************************)
(* C29.  Local counters are destroyed once expired: every record of the    *)
(* local limiter whose window has expired is eventually removed from the   *)
(* map, even if its key is never checked again.                            *)
(***************************************************************************)
C29_ExpiredRecordsRemoved ==
  \A key \in Keys : ExpiredRecord(key) ~> ~ExpiredRecord(key)

(***************************************************************************)
(* chatRateLimiter with either backend (index.ts chooses one at load       *)
(* time), checked with two keys.                                           *)
(***************************************************************************)
InitKeysSpec ==
  /\ now = 0
  /\ InitLimiter(0..MaxRequests)
  /\ InitCache
  /\ InitCacheCalls
  /\ InitIngest
  /\ InitUpload({"part_001"})
  /\ InitCosine({<<1, 0>>})
  /\ InitSweep
  /\ InitQuery({"part_002"}, {"memory", "redis"})

NextKeys ==
  \/ /\ backend = "memory"
     /\ \E key \in Keys : MemoryRateLimiterCheck(key)
  \/ /\ backend = "redis"
     /\ \E p \in Procs, key \in Keys : RedisIncr(p, key)
  \/ /\ backend = "redis"
     /\ \E p \in Procs : RedisExpire(p)
  \/ /\ backend = "redis"
     /\ \E p \in Procs : RedisReturn(p)
  \/ Tick

SpecKeys == InitKeysSpec /\ [][NextKeys]_vars

\* key has the same counter, or none, in both maps
SameCounter(before, after, key) ==
  /\ (key \in DOMAIN before) <=> (key \in DOMAIN after)
  /\ key \in DOMAIN before => after[key] = before[key]

\* map without the records of the other keys
Only(map, key) == [k \in (DOMAIN map) \cap {key} |-> map[k]]

(***************************************************************************)
(* C30.  Key independence: in both backends every step of check(k1) reads  *)
(* and changes the counter of k1 only.  It leaves the counter and the      *)
(* results of every other key as they are, and its own result and its new  *)
(* counter are those it would get with no counter of another key in the    *)
(* store.                                                                  *)
(***************************************************************************)
C30_KeyIndependence ==
  [][\A k1 \in Keys :
       /\ memLog'[k1] # memLog[k1] =>
            /\ \A k2 \in Keys \ {k1} :
                 SameCounter(limitMap, limitMap', k2) /\ memLog'[k2] = memLog[k2]
            /\ memLog'[k1][Len(memLog'[k1])].r
                 = CheckResultIn(Only(limitMap, k1), k1, now)
            /\ limitMap'[k1] = CheckMapIn(Only(limitMap, k1), k1, now)[k1]
       /\ \A p \in Procs :
            /\ (rpc[p] = "idle" /\ rpc'[p] # "idle" /\ rkey'[p] = k1) =>
                 /\ \A k2 \in Keys \ {k1} :
                      SameCounter(redisCounters, redisCounters', k2)
                 /\ rcount'[p] = IF k1 \in DOMAIN redisCounters
                                   THEN redisCounters[k1].count + 1 ELSE 1
                 /\ redisCounters'[k1].count = rcount'[p]
                 /\ redisLog' = redisLog
            /\ (rpc[p] = "expire" /\ rpc'[p] = "return" /\ rkey[p] = k1) =>
                 /\ \A k2 \in Keys \ {k1} :
                      SameCounter(redisCounters, redisCounters', k2)
                 /\ redisLog' = redisLog
            /\ (rpc[p] = "return" /\ rpc'[p] = "idle" /\ rkey[p] = k1) =>
                 /\ redisCounters' = redisCounters
                 /\ \A k2 \in Keys \ {k1} : redisLog'[k2] = redisLog[k2]
                 /\ \A e \in redisLog'[k1] \ redisLog[k1] :
                      e.r = (rcount[p] <= maxRequests)
    ]_vars

\* two checks of ip-1 have returned while a check of ip-2 is between its INCR
\* and its EXPIRE: the counters are 2 and 1
C30_Witness ==
  /\ backend = "redis"
  /\ "ip-1" \in DOMAIN redisCounters
  /\ "ip-2" \in DOMAIN redisCounters
  /\ redisCounters["ip-1"].count = 2
  /\ redisCounters["ip-2"].count = 1
  /\ Cardinality(redisLog["ip-1"]) = 2
  /\ \E p \in Procs : rpc[p] = "expire" /\ rkey[p] = "ip-2"

\* q was answered as a miss after cacheQueryResponse stored its entry
StoredMiss(q) ==
  /\ qpc[q] = "done"
  /\ qresp[q].status = 200
  /\ ~qresp[q].cached
  /\ Has(q, "cache_store")

\* r was answered from the cache
AnsweredHit(r) == qpc[r] = "done" /\ qresp[r].status = 200 /\ qresp[r].cached

(***************************************************************************)
(* C31.  Miss-then-hit round trip through the search route: when a query   *)
(* missed the cache, the route returned the context string c and wrote the *)
(* entry of the query, a repeat of the same query that is answered from    *)
(* the cache has the response c.                                           *)
(***************************************************************************)
C31_MissThenHitRoundTrip ==
  \A q \in Requests : \A r \in Requests \ {q} :
    (StoredMiss(q) /\ AnsweredHit(r) /\ qreq[r].body = qreq[q].body) =>
      /\ qresp[r].response.kind = "string"
      /\ qresp[r].response.value = qresp[q].contextString

(***************************************************************************)
(* Ingestion with failing calls: the select of checkDocumentExists, the    *)
(* batch embedding and an insert can fail.                                 *)
(***************************************************************************)
FaultIngestions == {"i1", "i2"}

\* the log entry of the insert of chunk c that was rejected
InsertError(c) == IF c = 0 THEN "insert:error:0" ELSE "insert:error:1"

\* the chunks of ingestion i whose insert was rejected
FailedChunks(i) ==
  {c \in 0..1 : \E n \in 1..Len(icalls[i]) : icalls[i][n] = InsertError(c)}

CheckErrorResultFromRows(rows, hash) == RowsOf(rows, hash) # {}
\* checkDocumentExists when the select returns an error: `return false`
CheckErrorResult(rows, hash) == FALSE

\* `const exists = await checkDocumentExists(source_hash)`, the select
\* returning an error
DedupGateCheckFails(i) ==
  /\ ipc[i] = "check"
  /\ IF DuplicateThrown(CheckErrorResult(documents, SourceHash(ifile[i])))
       THEN /\ ipc' = [ipc EXCEPT ![i] = "done"]
            /\ outcome' = [outcome EXCEPT ![i] = "DUPLICATE_DOCUMENT"]
            /\ icalls' = [icalls EXCEPT ![i] = Append(@, "exists:error")]
       ELSE /\ ipc' = [ipc EXCEPT ![i] = "embed"]
            /\ UNCHANGED outcome
            /\ icalls' = [icalls EXCEPT ![i] = @ \o <<"exists:error", "chunk">>]
  /\ UNCHANGED <<documents, ifile, atStart>>
  /\ UNCHANGED nonIngestVars

\* generateBatchEmbeddings throws Error("Failed to generate batch
\* embeddings"); processText has no handler
BatchEmbeddingFails(i) ==
  /\ ipc[i] = "embed"
  /\ ipc' = [ipc EXCEPT ![i] = "done"]
  /\ outcome' = [outcome EXCEPT ![i] = "Failed to generate batch embeddings"]
  /\ icalls' = [icalls EXCEPT ![i] = Append(@, "embed:error")]
  /\ UNCHANGED <<documents, ifile, atStart>>
  /\ UNCHANGED nonIngestVars

\* one insertDocument throws Error("Failed to insert document: ..."): the
\* Promise.all rejects at once and processText throws
InsertFails(i) ==
  /\ ipc[i] = "insert"
  /\ \E c \in Pending(i) :
       icalls' = [icalls EXCEPT ![i] = Append(@, InsertError(c))]
  /\ ipc' = [ipc EXCEPT ![i] = "done"]
  /\ outcome' = [outcome EXCEPT ![i] = "Failed to insert document"]
  /\ UNCHANGED <<documents, ifile, atStart>>
  /\ UNCHANGED nonIngestVars

\* an insert of a rejected Promise.all that was still in flight completes:
\* all inserts were started by `chunks.map` and none is cancelled
InsertAfterRejection(i) ==
  /\ ipc[i] = "done"
  /\ outcome[i] = "Failed to insert document"
  /\ \E c \in Pending(i) \ FailedChunks(i) :
       documents' = documents \cup
         {[source_hash |-> RowHash(ifile[i], c), chunkIndex |-> c, by |-> i]}
  /\ icalls' = [icalls EXCEPT ![i] = Append(@, "insert")]
  /\ UNCHANGED <<ipc, ifile, outcome, atStart>>
  /\ UNCHANGED nonIngestVars

NextIngestFault ==
  \/ \E i \in FaultIngestions, file \in Files : ProcessText(i, file)
  \/ \E i \in Ingestions : DedupGate(i)
  \/ \E i \in Ingestions : GenerateBatchEmbeddings(i)
  \/ \E i \in Ingestions : InsertDocument(i)
  \/ \E i \in Ingestions : IngestReturn(i)
  \/ \E i \in Ingestions : DedupGateCheckFails(i)
  \/ \E i \in Ingestions : BatchEmbeddingFails(i)
  \/ \E i \in Ingestions : InsertFails(i)
  \/ \E i \in Ingestions : InsertAfterRejection(i)

SpecIngestFault == InitIngestSpec /\ [][NextIngestFault]_vars

\* ingestion i has failed after the dedup gate
FailedAfterGate(i) ==
  /\ ipc[i] = "done"
  /\ outcome[i] \in {"Failed to generate batch embeddings",
                     "Failed to insert document"}

(***************************************************************************)
(* C32.  A source hash is in the vector store only for ingestions that     *)
(* completed: an ingestion that failed after the dedup gate (the batch     *)
(* embedding or an insert failed) has left no row in the store, so an      *)
(* ingestion that is refused as DUPLICATE_DOCUMENT found rows of an        *)
(* ingestion that did not fail.                                            *)
(***************************************************************************)
C32_FailedIngestionLeavesNoRows ==
  /\ \A i \in Ingestions :
       FailedAfterGate(i) => {row \in documents : row.by = i} = {}
  /\ \A j \in Ingestions :
       (ipc[j] = "done" /\ outcome[j] = "DUPLICATE_DOCUMENT") =>
         \E row \in RowsOf(documents, SourceHash(ifile[j])) :
           ~FailedAfterGate(row.by)


(***************************************************************************)
(* C33.  When the select of the existence check fails, checkDocumentExists *)
(* returns false and the ingestion goes on as if the hash were absent: it  *)
(* is never refused as DUPLICATE_DOCUMENT, it chunks, embeds and inserts,  *)
(* and when it succeeds all its chunks are in the store, also when rows    *)
(* with its hash were there before.                                        *)
(***************************************************************************)
C33_FailedCheckProceeds ==
  \A i \in Ingestions :
    Called(i, "exists:error") =>
      /\ outcome[i] # "DUPLICATE_DOCUMENT"
      /\ ipc[i] \in {"embed", "insert", "done"}
      /\ icalls[i][1] = "exists:error" /\ icalls[i][2] = "chunk"
      /\ ipc[i] = "insert" => icalls[i][3] = "embed"
      /\ outcome[i] = "success" =>
           /\ icalls[i][3] = "embed"
           /\ \A c \in 0..(Len(ChunkText(ExtractText(ifile[i]))) - 1) :
                [source_hash |-> SourceHash(ifile[i]), chunkIndex |-> c, by |-> i]
                  \in documents

\* i2 started when both chunks of its text were in the store, its existence
\* check failed, and it has inserted both chunks again
C33_Witness ==
  /\ outcome["i1"] = "success"
  /\ outcome["i2"] = "success"
  /\ ifile["i2"] = LongFile
  /\ Cardinality(RowsOf(atStart["i2"].rows, SourceHash(LongFile))) = 2
  /\ Called("i2", "exists:error")
  /\ Cardinality(RowsOf(documents, SourceHash(LongFile))) = 4


\* the call of log that opened the window call n falls in: the first call,
\* and every call made after the window of its predecessor's opener
RECURSIVE Opener(_, _)
Opener(log, n) ==
  IF n = 1 THEN 1
  ELSE IF log[n].t > log[Opener(log, n - 1)].t + Window THEN n
  ELSE Opener(log, n - 1)

\* in every state: in the local backend a call made later than one window
\* after the first call of the window is allowed; in the distributed backend
\* a counter without expiry is that of a first call about to set it, and an
\* expiry is at most one window ahead
WindowEndsOnTime ==
  /\ \A key \in Keys : \A n \in 1..Len(memLog[key]) :
       Opener(memLog[key], n) = n => memLog[key][n].r
  /\ \A key \in DOMAIN redisCounters :
       IF redisCounters[key].expireAt = NoTTL
         THEN \E p \in Procs : rpc[p] = "expire" /\ rkey[p] = key /\ rcount[p] = 1
         ELSE now < redisCounters[key].expireAt
              /\ redisCounters[key].expireAt <= now + Window

\* in every step: a denied check of the local backend leaves the record as
\* it is, a check of the distributed backend that is not the first of its
\* counter leaves the expiry as it is, and an expiry is only ever set on a
\* counter that has none, by the call that created the counter
DeniedKeepsWindow ==
  \A key \in Keys :
    /\ (memLog'[key] # memLog[key] /\ ~memLog'[key][Len(memLog'[key])].r) =>
         /\ key \in DOMAIN limitMap
         /\ limitMap' = limitMap
         /\ now <= limitMap[key].resetTime
    /\ \A p \in Procs :
         (rpc[p] = "idle" /\ rpc'[p] # "idle" /\ rkey'[p] = key /\ rcount'[p] > 1) =>
           /\ rpc'[p] = "return"
           /\ redisCounters'[key].expireAt = redisCounters[key].expireAt
    /\ (/\ key \in DOMAIN redisCounters
        /\ key \in DOMAIN redisCounters'
        /\ redisCounters'[key].expireAt # redisCounters[key].expireAt) =>
         /\ redisCounters[key].expireAt = NoTTL
         /\ redisCounters'[key].expireAt = now + Window
         /\ \E p \in Procs : rpc[p] = "expire" /\ rkey[p] = key /\ rcount[p] = 1

StoresInFlight == {c \in CacheCallers : cpc[c] # "idle"}

(***************************************************************************)
(* C35.  Soft capacity bound during concurrent stores: in every state,     *)
(* with k storeInSemanticCache calls in flight and no command failing, the *)
(* hash has at most MAX_CACHE_ENTRIES + k entries.                         *)
(***************************************************************************)
C35_SoftCapacityBound ==
  Len(cacheHash) <= MAX_CACHE_ENTRIES + Cardinality(StoresInFlight)

\* two stores in flight have both written their entry into a full hash and
\* neither has evicted yet: the bound is reached with k = 2
C35_Witness ==
  /\ Cardinality(StoresInFlight) = 2
  /\ \A c \in StoresInFlight : cpc[c] \in {"expire", "hlen", "hgetall", "hdel"}
  /\ Len(cacheHash) = MAX_CACHE_ENTRIES + 2

====
